---- MODULE Spec2Model ----
(***************************************************************************)
(* A model of the Home Assistant voice middleware: the Entity Directory    *)
(* of the hub client (src/src/homeassistant.js), the Plan Cache            *)
(* (src/src/intentCache.js), the plan executor and renderer                *)
(* (voicePlan.js) and the POST /voice handler (src/src/index.js).          *)
(*                                                                         *)
(* Scheduling.  The program is single-threaded JavaScript.  A step of the  *)
(* model is the synchronous code between two awaits.  A continuation that  *)
(* is already runnable (a microtask) runs before the next I/O event is     *)
(* delivered, so the hub's responses are delivered only when no task is    *)
(* Ready.  Runnable continuations may run in any order, except that the    *)
(* reactions of one promise run in the order they were registered.         *)
(***************************************************************************)
EXTENDS Integers, Sequences, FiniteSets, TLC

----------------------------------------------------------------------------
(* Bounds of the model *)

\* Date.now() runs from StartClock to MaxClock.
MaxClock == 4
\* Concurrent callers of refreshStates.
NumTasks == 3
\* Concurrent callers of getEntityState and callService.
NumClients == 2
\* Promises of refreshStates' fetch that can be alive at once.
MaxPromises == 3
\* statesTtlMs, scaled down (a configuration value, homeassistant.js:40).
StatesTtlMs == 1
\* maxEntries and defaultTtlMs of the IntentCache, scaled down (index.js:36-39).
IntentCacheMax == 1
IntentCacheTtlMs == 1
\* Model responses that ask for a tool within one request.
MaxRounds == 1
\* The longest list of tool uses, and of tool results, given to the plan
\* builder and to the renderer when they are exercised on their own.
MaxUses == 2
MaxResults == 2
\* maxEntries of the IntentCache a caller uses alone.
LruMax == 2

----------------------------------------------------------------------------
(* Values *)

Null == 0
Undefined == "undefined"
NoId == "none"

Tasks == 1..NumTasks
PromiseIds == 1..MaxPromises

\* Date.now() is far beyond the TTL when the process starts, so the empty
\* initial snapshot (lastStatesRefreshAt = 0) is stale.
StartClock == StatesTtlMs + 1

EntityIds == {"light.lamp", "switch.pool_pump"}
\* The entity the callers ask for: some inventories hold it, some do not.
QueryIds == {"switch.pool_pump"}

\* entity_id.split('.', 1)[0]
DomainOf(id) ==
  CASE id = "light.lamp" -> "light"
    [] id = "switch.pool_pump" -> "switch"
    [] id = "sensor.pool_temp" -> "sensor"
    [] id = "switch.pool_pump_2" -> "switch"
    [] id = "light.pool_light" -> "light"
    [] OTHER -> id

\* One record of the hub's bulk inventory.  A record whose entity_id is
\* missing is what makes indexStates raise while it indexes.
HubRecord(id, st) == [entity_id |-> id, state |-> st]

\* The bodies the hub can answer GET /api/states with.
HubInventories ==
  { <<HubRecord("light.lamp", "on")>>,
    <<HubRecord("light.lamp", "on"), HubRecord("switch.pool_pump", "off"),
      HubRecord("sensor.pool_temp", "20")>>,
    <<HubRecord("switch.pool_pump", "on"), HubRecord(Undefined, "on")>> }

\* The ways a hub request fails: a non-success status, the request timeout
\* (abort), a body that cannot be read as the expected JSON.
HubFailures == {"http_error", "timeout", "bad_body"}

Range(s) == {s[i] : i \in DOMAIN s}

----------------------------------------------------------------------------
VARIABLES
  clock,                \* Date.now()
  lastStatesRefreshAt,  \* homeassistant.js:52
  statesByEntityId,     \* homeassistant.js:53, entity_id -> state
  entitiesByDomain,     \* homeassistant.js:54, domain -> list of entities
  refreshInFlight,      \* homeassistant.js:55, Null or a promise
  promise,              \* the state of each promise of a refresh fetch
  task,                 \* the callers of the hub client
  intentCache,          \* index.js:36, the Map of the IntentCache in insertion order
  req,                  \* the POST /voice handler and the request it serves
  cacheCall             \* the last call of a caller that uses the IntentCache alone

dirVars == <<lastStatesRefreshAt, statesByEntityId, entitiesByDomain>>
voiceVars == <<intentCache, req, cacheCall>>
vars == <<clock, lastStatesRefreshAt, statesByEntityId, entitiesByDomain,
          refreshInFlight, promise, task, intentCache, req, cacheCall>>

\* The arguments of a call besides the entity id.
NoArg == [domains |-> <<>>, search |-> "", minScore |-> 0, service |-> "none"]

IdleTask ==
  [pc |-> "idle", op |-> "none", force |-> FALSE, id |-> NoId, arg |-> NoArg,
   ret |-> "none", wait |-> Null, how |-> "none",
   res |-> "none", src |-> "none", val |-> "none",
   nForced |-> 0, nPoint |-> 0, nPost |-> 0, orphan |-> FALSE]

\* null where a plan is expected.
NoPlan == [version |-> 0, toolCalls |-> <<>>]

\* No error caught: err holds the source of the error executePlan failed
\* with and the action that raised it.
NoErr == [src |-> "none", call |-> "none"]

\* The handler between two requests.
IdleReq ==
  [pc |-> "idle", text |-> "", normalized |-> "", tier |-> "none",
   plan |-> NoPlan, idx |-> 0, results |-> <<>>, waits |-> <<>>, err |-> NoErr,
   toolUsesSeen |-> <<>>, toolUseBlocks |-> <<>>, rounds |-> 0,
   messages |-> <<>>, status |-> 0, body |-> <<>>, hitExpiresAt |-> Null,
   nFast |-> 0, nLLM |-> 0, nSet |-> 0, nDel |-> 0]

\* No call of the IntentCache made yet by the caller that uses it alone.
\* evicted: the keys the call's eviction loop removed; order: the stored keys
\* by their last access (a set, or a get that returned the plan), oldest
\* first; created: the keys stored when the call was made, and the key it
\* added, by the time their entry was created.
NoCall ==
  [op |-> "none", key |-> "", ttl |-> 0, value |-> NoPlan, evicted |-> {},
   order |-> <<>>, created |-> <<>>]

Settled(p) == promise[p] \in {"fulfilled", "rejected"}

Init ==
  /\ clock = StartClock
  /\ lastStatesRefreshAt = 0
  /\ statesByEntityId = << >>
  /\ entitiesByDomain = << >>
  /\ refreshInFlight = Null
  /\ promise = [p \in PromiseIds |-> "free"]
  /\ task = [t \in Tasks |-> IdleTask]
  /\ intentCache = <<>>
  /\ req = IdleReq
  /\ cacheCall = NoCall

----------------------------------------------------------------------------
(* The Entity Directory: indexStates and refreshStates *)

\* attributes.friendly_name of the hub's records (absent for the lamp).
FriendlyName(id) ==
  CASE id = "switch.pool_pump" -> "Pool Pump"
    [] id = "sensor.pool_temp" -> "Pool Temperature"
    [] id = "switch.pool_pump_2" -> "Pool Pump Two"
    [] id = "light.pool_light" -> "Pool Light"
    [] OTHER -> Undefined

\* state.attributes?.friendly_name || state.entity_id
NameOf(id) == IF FriendlyName(id) # Undefined THEN FriendlyName(id) ELSE id

\* new Map(states.map(s => [s.entity_id, s])): a later record of an id wins.
IndexById(states) ==
  [id \in {states[i].entity_id : i \in DOMAIN states} |->
     LET last == CHOOSE i \in DOMAIN states :
                   /\ states[i].entity_id = id
                   /\ \A j \in DOMAIN states : states[j].entity_id = id => j <= i
     IN states[last].state]

DomainEntry(s) ==
  [entity_id |-> s.entity_id, name |-> NameOf(s.entity_id), state |-> s.state]

RECURSIVE MapEntries(_)
MapEntries(states) ==
  IF states = <<>> THEN <<>>
  ELSE <<DomainEntry(Head(states))>> \o MapEntries(Tail(states))

\* nextByDomain: each domain's records in the hub's order.
IndexByDomain(states) ==
  [d \in {DomainOf(states[i].entity_id) : i \in DOMAIN states} |->
     MapEntries(SelectSeq(states, LAMBDA s : DomainOf(s.entity_id) = d))]

\* state.entity_id.split raises on a record without a string entity_id.
IndexThrows(states) == \E i \in DOMAIN states : states[i].entity_id = Undefined

\* indexStates as it leaves the two maps: line 58 assigns statesByEntityId
\* before the loop of lines 61-72 runs; line 73 is reached only when the loop
\* did not raise.
IndexStates(states) ==
  [byId |-> IndexById(states),
   byDomain |-> IF IndexThrows(states) THEN entitiesByDomain
                ELSE IndexByDomain(states),
   threw |-> IndexThrows(states)]

Stale_AtTtl(now) == now - lastStatesRefreshAt >= StatesTtlMs

\* now - lastStatesRefreshAt > statesTtlMs
Stale(now) == now - lastStatesRefreshAt > StatesTtlMs

GuardSet_Ignored == FALSE

\* if (refreshInFlight) return refreshInFlight;
GuardSet == refreshInFlight # Null

FreePromise == CHOOSE p \in PromiseIds :
                 promise[p] = "free" /\ \A q \in PromiseIds : promise[q] = "free" => p <= q

\* A settled promise nothing refers to any more is collected.
Collect(pr, guard, tk) ==
  [p \in PromiseIds |->
     IF /\ pr[p] \in {"fulfilled", "rejected"}
        /\ guard # p
        /\ \A t \in Tasks : tk[t].wait # p
     THEN "free" ELSE pr[p]]

\* The synchronous part of refreshStates({force}) called by task t, which
\* goes on at retpc when the call has settled.
RefreshStates(t, force, retpc) ==
  LET me == [task[t] EXCEPT !.nForced = @ + (IF force THEN 1 ELSE 0),
                            !.ret = retpc]
  IN
  /\ UNCHANGED <<voiceVars, clock, dirVars>>
  /\ IF ~force /\ ~Stale(clock)
     THEN /\ task' = [task EXCEPT ![t] = [me EXCEPT !.pc = retpc, !.how = "noop"]]
          /\ UNCHANGED <<refreshInFlight, promise>>
     ELSE IF GuardSet
     THEN /\ task' = [task EXCEPT ![t] =
                        [me EXCEPT !.pc = "rs_join", !.wait = refreshInFlight,
                                   !.how = "joined"]]
          /\ UNCHANGED <<refreshInFlight, promise>>
     ELSE /\ \E p \in PromiseIds : promise[p] = "free"
          /\ promise' = [promise EXCEPT ![FreePromise] = "pending"]
          /\ refreshInFlight' = FreePromise
          /\ task' = [task EXCEPT ![t] =
                        [me EXCEPT !.pc = "rs_await", !.wait = FreePromise,
                                   !.how = "started"]]

\* The operation of task t ends.  Nobody reads the outcome of a call whose
\* Promise.all has already rejected.
Finish(me, res, src, val) ==
  IF me.orphan THEN IdleTask
  ELSE [me EXCEPT !.pc = "done", !.res = res, !.src = src, !.val = val,
                  !.wait = Null, !.ret = "none", !.how = "none"]

\* What follows a settled refreshStates call in its caller: the next line
\* when it was fulfilled, the error out of the operation when it was rejected.
\* In warmup the await stands inside a try: a rejection enters its catch.
AfterRefresh(me, outcome) ==
  IF outcome = "fulfilled"
  THEN [me EXCEPT !.pc = me.ret, !.wait = Null, !.ret = "none", !.how = "none"]
  ELSE IF me.op = "warmup"
  THEN [me EXCEPT !.pc = "wu_catch", !.wait = Null, !.ret = "none", !.how = "none"]
  ELSE Finish(me, "err", "refresh", "none")

\* A task whose continuation is runnable without any I/O.
Ready(t) ==
  \/ task[t].pc \in {"rs_start", "gs_start", "gs_check1", "gs_check2",
                     "cs_start", "cs_check1", "cs_check2",
                     "re_start", "re_score", "fe_start", "fe_list",
                     "wu_start", "wu_ok", "wu_catch"}
  \/ task[t].pc = "rs_await" /\ Settled(task[t].wait)
  \/ task[t].pc = "rs_join" /\ Settled(task[t].wait) /\ refreshInFlight # task[t].wait

\* The handler's continuation is runnable: what it awaits has settled.
HandlerReady ==
  \/ req.pc \in {"exec_ok", "exec_err"}
  \/ /\ req.pc \in {"exec_call", "fast_pool1", "fast_pool2", "fast_turn",
                    "fast_suffix", "llm_tool"}
     /\ task[req.waits[1]].pc = "done"
  \/ /\ req.pc = "exec_reads"
     /\ \/ \A i \in DOMAIN req.waits : task[req.waits[i]].pc = "done"
        \/ \E i \in DOMAIN req.waits :
             task[req.waits[i]].pc = "done" /\ task[req.waits[i]].res = "err"

IoEnabled == (\A t \in Tasks : ~Ready(t)) /\ ~HandlerReady

\* The hub answers the bulk fetch of promise p and the async body of lines
\* 83-89 runs to its end.
HubBulkRespond(p) ==
  /\ promise[p] = "pending"
  /\ IoEnabled
  /\ UNCHANGED <<voiceVars, clock, refreshInFlight, task>>
  /\ \/ /\ \E f \in HubFailures : TRUE
        /\ promise' = [promise EXCEPT ![p] = "rejected"]
        /\ UNCHANGED dirVars
     \/ \E states \in HubInventories :
          LET ix == IndexStates(states) IN
          /\ statesByEntityId' = ix.byId
          /\ entitiesByDomain' = ix.byDomain
          /\ lastStatesRefreshAt' = IF ix.threw THEN lastStatesRefreshAt ELSE clock
          /\ promise' = [promise EXCEPT ![p] = IF ix.threw THEN "rejected" ELSE "fulfilled"]

\* The release written after the await instead of in a finally.
RefreshFinally_OnSuccessOnly(t) ==
  /\ task[t].pc = "rs_await"
  /\ Settled(task[t].wait)
  /\ UNCHANGED <<voiceVars, clock, dirVars>>
  /\ refreshInFlight' = IF promise[task[t].wait] = "fulfilled" THEN Null
                        ELSE refreshInFlight
  /\ LET tk == [task EXCEPT ![t] = AfterRefresh(task[t], promise[task[t].wait])]
     IN /\ task' = tk
        /\ promise' = Collect(promise, refreshInFlight', tk)

\* try { await refreshInFlight } finally { refreshInFlight = null } in the
\* call that started the fetch.
RefreshFinally(t) ==
  /\ task[t].pc = "rs_await"
  /\ Settled(task[t].wait)
  /\ UNCHANGED <<voiceVars, clock, dirVars>>
  /\ refreshInFlight' = Null
  /\ LET tk == [task EXCEPT ![t] = AfterRefresh(task[t], promise[task[t].wait])]
     IN /\ task' = tk
        /\ promise' = Collect(promise, Null, tk)

\* A call that returned the in-flight promise settles with it.  Its reaction
\* was registered after the starter's await, so it runs after the finally.
RefreshJoined(t) ==
  /\ task[t].pc = "rs_join"
  /\ Settled(task[t].wait)
  /\ refreshInFlight # task[t].wait
  /\ UNCHANGED <<voiceVars, clock, dirVars, refreshInFlight>>
  /\ LET tk == [task EXCEPT ![t] = AfterRefresh(task[t], promise[task[t].wait])]
     IN /\ task' = tk
        /\ promise' = Collect(promise, refreshInFlight, tk)

\* refreshStates({force}) called through the client's interface; at rs_ret
\* the call has returned.
RefreshStart(t) ==
  /\ task[t].pc = "rs_start"
  /\ RefreshStates(t, task[t].force, "rs_ret")

Tick ==
  /\ clock < MaxClock
  /\ clock' = clock + 1
  /\ UNCHANGED <<voiceVars, dirVars, refreshInFlight, promise, task>>

----------------------------------------------------------------------------
(* getEntityState and callService *)

Known(id) == id \in DOMAIN statesByEntityId

\* What the hub can answer GET /api/states/<id> with: the entity's record,
\* or a failure (404 for an id it does not know).
HubPointStates == {"on"}
HubPointFailures == {"not_found", "timeout"}

\* getEntityState: await ensureStatesFresh()
GetStateStart(t) ==
  /\ task[t].pc = "gs_start"
  /\ IF task[t].id = NoId
     THEN /\ task' = [task EXCEPT ![t] = Finish(task[t], "err", "required", "none")]
          /\ UNCHANGED <<voiceVars, clock, dirVars, refreshInFlight, promise>>
     ELSE RefreshStates(t, FALSE, "gs_check1")

\* Lines 132-135: the cached entry, else one forced refresh.
GetStateCheck1(t) ==
  /\ task[t].pc = "gs_check1"
  /\ IF Known(task[t].id)
     THEN /\ task' = [task EXCEPT ![t] =
                        Finish(task[t], "ok", "cache", statesByEntityId[task[t].id])]
          /\ UNCHANGED <<voiceVars, clock, dirVars, refreshInFlight, promise>>
     ELSE RefreshStates(t, TRUE, "gs_check2")

\* The recheck after the forced refresh left out.
GetStateCheck2_NoRecheck(t) ==
  /\ task[t].pc = "gs_check2"
  /\ UNCHANGED <<voiceVars, clock, dirVars, refreshInFlight, promise>>
  /\ task' = [task EXCEPT ![t].pc = "gs_point", ![t].nPoint = @ + 1]

\* Lines 136-139: the entry after the forced refresh, else the point lookup.
GetStateCheck2(t) ==
  /\ task[t].pc = "gs_check2"
  /\ UNCHANGED <<voiceVars, clock, dirVars, refreshInFlight, promise>>
  /\ IF Known(task[t].id)
     THEN task' = [task EXCEPT ![t] =
                     Finish(task[t], "ok", "cache", statesByEntityId[task[t].id])]
     ELSE task' = [task EXCEPT ![t].pc = "gs_point", ![t].nPoint = @ + 1]

\* Lines 139-141: the hub answers the point lookup.
HubPointRespond(t) ==
  /\ task[t].pc = "gs_point"
  /\ IoEnabled
  /\ UNCHANGED <<voiceVars, clock, dirVars, refreshInFlight, promise>>
  /\ \/ \E st \in HubPointStates :
          task' = [task EXCEPT ![t] = Finish(task[t], "ok", "point", st)]
     \/ \E f \in HubPointFailures :
          task' = [task EXCEPT ![t] = Finish(task[t], "err", f, "none")]

\* The POST to /api/services/<domain>/<service> leaves.  History of a
\* caller whose record has the field snap: the snapshot's states as they are
\* when the POST leaves.
SendControl(me) ==
  IF "snap" \in DOMAIN me
  THEN [me EXCEPT !.pc = "cs_post", !.nPost = @ + 1, !.snap = statesByEntityId]
  ELSE [me EXCEPT !.pc = "cs_post", !.nPost = @ + 1]

\* callService, lines 148-149: a target entity is validated first.
CallServiceStart(t) ==
  /\ task[t].pc = "cs_start"
  /\ IF task[t].id # NoId
     THEN RefreshStates(t, FALSE, "cs_check1")
     ELSE /\ task' = [task EXCEPT ![t] = SendControl(task[t])]
          /\ UNCHANGED <<voiceVars, clock, dirVars, refreshInFlight, promise>>

\* Lines 150-151
CallServiceCheck1(t) ==
  /\ task[t].pc = "cs_check1"
  /\ IF Known(task[t].id)
     THEN /\ task' = [task EXCEPT ![t] = SendControl(task[t])]
          /\ UNCHANGED <<voiceVars, clock, dirVars, refreshInFlight, promise>>
     ELSE RefreshStates(t, TRUE, "cs_check2")

\* The not-found guard after the forced refresh left out.
CallServiceCheck2_NoGuard(t) ==
  /\ task[t].pc = "cs_check2"
  /\ UNCHANGED <<voiceVars, clock, dirVars, refreshInFlight, promise>>
  /\ task' = [task EXCEPT ![t] = SendControl(task[t])]

\* Lines 152-154
CallServiceCheck2(t) ==
  /\ task[t].pc = "cs_check2"
  /\ UNCHANGED <<voiceVars, clock, dirVars, refreshInFlight, promise>>
  /\ IF Known(task[t].id)
     THEN task' = [task EXCEPT ![t] = SendControl(task[t])]
     ELSE task' = [task EXCEPT ![t] = Finish(task[t], "err", "not_found", "none")]

\* A service call that the hub accepted marking the snapshot as stale.
HubControlRespond_Invalidates(t) ==
  /\ task[t].pc = "cs_post"
  /\ IoEnabled
  /\ UNCHANGED <<voiceVars, clock, refreshInFlight, promise,
                 statesByEntityId, entitiesByDomain>>
  /\ \/ /\ task' = [task EXCEPT ![t] = Finish(task[t], "ok", "hub", "success")]
        /\ lastStatesRefreshAt' = 0
     \/ /\ \E f \in {"http_error", "timeout"} :
             task' = [task EXCEPT ![t] = Finish(task[t], "err", f, "none")]
        /\ UNCHANGED lastStatesRefreshAt

\* Lines 164-179: the hub answers the control request.
HubControlRespond(t) ==
  /\ task[t].pc = "cs_post"
  /\ IoEnabled
  /\ UNCHANGED <<voiceVars, clock, dirVars, refreshInFlight, promise>>
  /\ \/ task' = [task EXCEPT ![t] = Finish(task[t], "ok", "hub", "success")]
     \/ \E f \in {"http_error", "timeout"} :
          task' = [task EXCEPT ![t] = Finish(task[t], "err", f, "none")]

----------------------------------------------------------------------------
(* The directory under concurrent callers of the client's interface *)

Clients == 1..NumClients

NewCall(op, pc, force, id) ==
  [IdleTask EXCEPT !.op = op, !.pc = pc, !.force = force, !.id = id]

\* A caller enters refreshStates({force}).
CallRefreshStates(t) ==
  /\ task[t].pc \in {"idle", "done", "rs_ret"}
  /\ UNCHANGED <<voiceVars, clock, dirVars, refreshInFlight, promise>>
  /\ \E force \in BOOLEAN :
       task' = [task EXCEPT ![t] = NewCall("refreshStates", "rs_start", force, NoId)]

\* A caller enters getEntityState(id).
CallGetEntityState(t) ==
  /\ task[t].pc \in {"idle", "done"}
  /\ UNCHANGED <<voiceVars, clock, dirVars, refreshInFlight, promise>>
  /\ \E id \in QueryIds :
       task' = [task EXCEPT ![t] = NewCall("getEntityState", "gs_start", FALSE, id)]

\* A caller enters callService, with a target entity or without one.
CallCallService(t) ==
  /\ task[t].pc \in {"idle", "done"}
  /\ UNCHANGED <<voiceVars, clock, dirVars, refreshInFlight, promise>>
  /\ \E id \in QueryIds \cup {NoId} :
       task' = [task EXCEPT ![t] = NewCall("callService", "cs_start", FALSE, id)]

\* Callers of refreshStates alone: the single-flight guard and the snapshot.
RefreshNext ==
  \/ Tick
  \/ \E t \in Tasks : CallRefreshStates(t)
  \/ \E t \in Tasks : RefreshStart(t)
  \/ \E t \in Tasks : RefreshFinally(t)
  \/ \E t \in Tasks : RefreshJoined(t)
  \/ \E p \in PromiseIds : HubBulkRespond(p)

SpecRefresh == Init /\ [][RefreshNext]_vars

\* Callers of getEntityState and callService.
ClientNext ==
  \/ Tick
  \/ \E t \in Clients : CallGetEntityState(t)
  \/ \E t \in Clients : CallCallService(t)
  \/ \E t \in Clients : RefreshFinally(t)
  \/ \E t \in Clients : RefreshJoined(t)
  \/ \E t \in Clients : GetStateStart(t)
  \/ \E t \in Clients : GetStateCheck1(t)
  \/ \E t \in Clients : GetStateCheck2(t)
  \/ \E t \in Clients : CallServiceStart(t)
  \/ \E t \in Clients : CallServiceCheck1(t)
  \/ \E t \in Clients : CallServiceCheck2(t)
  \/ \E p \in PromiseIds : HubBulkRespond(p)
  \/ \E t \in Clients : HubPointRespond(t)
  \/ \E t \in Clients : HubControlRespond(t)

SpecClient == Init /\ [][ClientNext]_vars

\* A caller enters callService with a target entity; the snapshot its POST
\* leaves with is followed.
CallServiceWatched(t) ==
  /\ task[t].pc \in {"idle", "done"}
  /\ UNCHANGED <<voiceVars, clock, dirVars, refreshInFlight, promise>>
  /\ \E id \in QueryIds :
       task' = [task EXCEPT ![t] =
                  [snap |-> <<>>] @@ NewCall("callService", "cs_start", FALSE, id)]

\* The caller whose service call the hub accepted enters getEntityState
\* for the entity it called.
CallGetEntityStateAfter(t) ==
  /\ task[t].pc = "done" /\ task[t].op = "callService" /\ task[t].res = "ok"
  /\ "snap" \in DOMAIN task[t]
  /\ UNCHANGED <<voiceVars, clock, dirVars, refreshInFlight, promise>>
  /\ task' = [task EXCEPT ![t] =
                [snap |-> task[t].snap]
                  @@ NewCall("getEntityState", "gs_start", FALSE, task[t].id)]

\* Callers that read an entity's state after a service call on it, beside
\* callers of getEntityState.
SequelNext ==
  \/ Tick
  \/ \E t \in Clients : CallGetEntityState(t)
  \/ \E t \in Clients : CallServiceWatched(t)
  \/ \E t \in Clients : CallGetEntityStateAfter(t)
  \/ \E t \in Clients : RefreshFinally(t)
  \/ \E t \in Clients : RefreshJoined(t)
  \/ \E t \in Clients : GetStateStart(t)
  \/ \E t \in Clients : GetStateCheck1(t)
  \/ \E t \in Clients : GetStateCheck2(t)
  \/ \E t \in Clients : CallServiceStart(t)
  \/ \E t \in Clients : CallServiceCheck1(t)
  \/ \E t \in Clients : CallServiceCheck2(t)
  \/ \E p \in PromiseIds : HubBulkRespond(p)
  \/ \E t \in Clients : HubPointRespond(t)
  \/ \E t \in Clients : HubControlRespond(t)

SpecSequel == Init /\ [][SequelNext]_vars

----------------------------------------------------------------------------
(* Strings.  A string of the program is named by a TLA+ string in the      *)
(* state and computed on as the sequence of its characters, Chars(s).      *)

\* The characters of the strings the model uses.
Chars(s) ==
  CASE s = "Turn on the pool pump" -> <<"T", "u", "r", "n", " ", "o", "n", " ", "t", "h", "e", " ", "p", "o", "o", "l", " ", "p", "u", "m", "p">>
    [] s = "Pool temp on" -> <<"P", "o", "o", "l", " ", "t", "e", "m", "p", " ", "o", "n">>
    [] s = "pool temp on" -> <<"p", "o", "o", "l", " ", "t", "e", "m", "p", " ", "o", "n">>
    [] s = "turn on pool pump" -> <<"t", "u", "r", "n", " ", "o", "n", " ", "p", "o", "o", "l", " ", "p", "u", "m", "p">>
    [] s = "pool pump" -> <<"p", "o", "o", "l", " ", "p", "u", "m", "p">>
    [] s = "pool" -> <<"p", "o", "o", "l">>
    [] s = "light.lamp" -> <<"l", "i", "g", "h", "t", ".", "l", "a", "m", "p">>
    [] s = "switch.pool_pump" -> <<"s", "w", "i", "t", "c", "h", ".", "p", "o", "o", "l", "_", "p", "u", "m", "p">>
    [] s = "sensor.pool_temp" -> <<"s", "e", "n", "s", "o", "r", ".", "p", "o", "o", "l", "_", "t", "e", "m", "p">>
    [] s = "Pool Pump" -> <<"P", "o", "o", "l", " ", "P", "u", "m", "p">>
    [] s = "Pool Temperature" -> <<"P", "o", "o", "l", " ", "T", "e", "m", "p", "e", "r", "a", "t", "u", "r", "e">>
    [] s = "pool temperature" -> <<"p", "o", "o", "l", " ", "t", "e", "m", "p", "e", "r", "a", "t", "u", "r", "e">>
    [] s = "pool temp" -> <<"p", "o", "o", "l", " ", "t", "e", "m", "p">>
    [] s = "The" -> <<"T", "h", "e">>
    [] s = "switch.pool_pump_2" -> <<"s", "w", "i", "t", "c", "h", ".", "p", "o", "o", "l", "_", "p", "u", "m", "p", "_", "2">>
    [] s = "light.pool_light" -> <<"l", "i", "g", "h", "t", ".", "p", "o", "o", "l", "_", "l", "i", "g", "h", "t">>
    [] s = "Pool Pump Two" -> <<"P", "o", "o", "l", " ", "P", "u", "m", "p", " ", "T", "w", "o">>
    [] s = "Pool Light" -> <<"P", "o", "o", "l", " ", "L", "i", "g", "h", "t">>
    [] s = "pool pump two" -> <<"p", "o", "o", "l", " ", "p", "u", "m", "p", " ", "t", "w", "o">>
    [] s = "lamp" -> <<"l", "a", "m", "p">>
    [] s = "turn on pool temp" -> <<"t", "u", "r", "n", " ", "o", "n", " ", "p", "o", "o", "l", " ", "t", "e", "m", "p">>
    [] s = "turn off pool pump" -> <<"t", "u", "r", "n", " ", "o", "f", "f", " ", "p", "o", "o", "l", " ", "p", "u", "m", "p">>
    [] s = "turn on lamp" -> <<"t", "u", "r", "n", " ", "o", "n", " ", "l", "a", "m", "p">>
    [] s = "lamp off" -> <<"l", "a", "m", "p", " ", "o", "f", "f">>
    [] s = "turn on pool" -> <<"t", "u", "r", "n", " ", "o", "n", " ", "p", "o", "o", "l">>
    [] s = "pool on" -> <<"p", "o", "o", "l", " ", "o", "n">>
    [] s = "" -> <<>>

Strings ==
  {"Turn on the pool pump",
   "Pool temp on",
   "pool temp on",
   "turn on pool pump",
   "pool pump",
   "pool",
   "light.lamp",
   "switch.pool_pump",
   "sensor.pool_temp",
   "Pool Pump",
   "Pool Temperature",
   "pool temperature",
   "pool temp",
   "The",
   "turn on pool temp",
   "turn off pool pump",
   "turn on lamp",
   "lamp off",
   "turn on pool",
   "pool on",
   "switch.pool_pump_2",
   "light.pool_light",
   "Pool Pump Two",
   "Pool Light",
   "pool pump two",
   "lamp",
   ""}

\* The string with the characters cs.
Str(cs) == CHOOSE s \in Strings : Chars(s) = cs

UpperCase == <<"A", "B", "C", "D", "E", "F", "G", "H", "I", "J", "K", "L", "M", "N", "O", "P", "Q", "R", "S", "T", "U", "V", "W", "X", "Y", "Z">>
LowerCase == <<"a", "b", "c", "d", "e", "f", "g", "h", "i", "j", "k", "l", "m", "n", "o", "p", "q", "r", "s", "t", "u", "v", "w", "x", "y", "z">>
DigitChars == {"0", "1", "2", "3", "4", "5", "6", "7", "8", "9"}

\* \p{L}, \p{N}, \s and \w on the characters the model uses.
IsLetter(c) == c \in Range(UpperCase) \cup Range(LowerCase)
IsDigit(c) == c \in DigitChars
IsSpace(c) == c = " "
IsWordChar(c) == IsLetter(c) \/ IsDigit(c) \/ c = "_"

Lower(c) ==
  IF \E i \in DOMAIN UpperCase : UpperCase[i] = c
  THEN LowerCase[CHOOSE i \in DOMAIN UpperCase : UpperCase[i] = c]
  ELSE c

\* String.prototype.toLowerCase
ToLowerCase(s) == [i \in DOMAIN s |-> Lower(s[i])]

\* String.prototype.includes
Includes(s, sub) ==
  \E i \in 0..(Len(s) - Len(sub)) : SubSeq(s, i + 1, i + Len(sub)) = sub

\* String.prototype.startsWith
StartsWith(s, pre) == Len(pre) <= Len(s) /\ SubSeq(s, 1, Len(pre)) = pre

\* The literal lit stands in s from index i on.
MatchAt(s, i, lit) ==
  /\ i >= 1 /\ i + Len(lit) - 1 <= Len(s)
  /\ SubSeq(s, i, i + Len(lit) - 1) = lit

\* \b between s[i-1] and s[i].
WordCharAt(s, i) == i >= 1 /\ i <= Len(s) /\ IsWordChar(s[i])
Boundary(s, i) == WordCharAt(s, i - 1) # WordCharAt(s, i)

\* The length of the run of whitespace (of other characters) from index i.
RECURSIVE SpaceRun(_, _)
SpaceRun(s, i) ==
  IF i <= Len(s) /\ IsSpace(s[i]) THEN 1 + SpaceRun(s, i + 1) ELSE 0

RECURSIVE TextRun(_, _)
TextRun(s, i) ==
  IF i <= Len(s) /\ ~IsSpace(s[i]) THEN 1 + TextRun(s, i + 1) ELSE 0

\* split(/\s+/).filter(Boolean)
RECURSIVE SplitSpaces(_)
SplitSpaces(s) ==
  IF s = <<>> THEN <<>>
  ELSE IF IsSpace(s[1]) THEN SplitSpaces(SubSeq(s, 1 + SpaceRun(s, 1), Len(s)))
  ELSE <<SubSeq(s, 1, TextRun(s, 1))>>
          \o SplitSpaces(SubSeq(s, 1 + TextRun(s, 1), Len(s)))

\* String.prototype.trim
Trim(s) ==
  IF \A i \in DOMAIN s : IsSpace(s[i]) THEN <<>>
  ELSE LET first == CHOOSE i \in DOMAIN s :
                      ~IsSpace(s[i]) /\ \A j \in 1..(i - 1) : IsSpace(s[j])
           last == CHOOSE i \in DOMAIN s :
                      ~IsSpace(s[i]) /\ \A j \in (i + 1)..Len(s) : IsSpace(s[j])
       IN SubSeq(s, first, last)

\* tokenize, homeassistant.js:5-11
Tokenize(text) ==
  LET low == ToLowerCase(text)
      kept == [i \in DOMAIN low |->
                 IF IsLetter(low[i]) \/ IsDigit(low[i]) \/ IsSpace(low[i])
                 THEN low[i] ELSE " "]
  IN SplitSpaces(kept)

----------------------------------------------------------------------------
(* normalizeUtterance *)

\* /\bswitch\s+(on|off)\b/ at index i: the length of the match and its
\* group, length 0 when there is none.
SwitchMatch(s, i) ==
  LET p == i + 6 + SpaceRun(s, i + 6) IN
  IF Boundary(s, i) /\ MatchAt(s, i, <<"s", "w", "i", "t", "c", "h">>) /\ SpaceRun(s, i + 6) >= 1
  THEN IF MatchAt(s, p, <<"o", "n">>) /\ Boundary(s, p + 2)
       THEN [len |-> p + 2 - i, word |-> <<"o", "n">>]
       ELSE IF MatchAt(s, p, <<"o", "f", "f">>) /\ Boundary(s, p + 3)
       THEN [len |-> p + 3 - i, word |-> <<"o", "f", "f">>]
       ELSE [len |-> 0, word |-> <<>>]
  ELSE [len |-> 0, word |-> <<>>]

\* replace(/\bswitch\s+(on|off)\b/g, 'turn $1')
RECURSIVE ReplaceSwitch(_, _)
ReplaceSwitch(s, i) ==
  IF i > Len(s) THEN <<>>
  ELSE LET m == SwitchMatch(s, i) IN
       IF m.len > 0
       THEN <<"t", "u", "r", "n", " ">> \o m.word \o ReplaceSwitch(s, i + m.len)
       ELSE <<s[i]>> \o ReplaceSwitch(s, i + 1)

\* replace(/\b(w)\b/g, '')
RECURSIVE DeleteWord(_, _, _)
DeleteWord(s, w, i) ==
  IF i > Len(s) THEN <<>>
  ELSE IF Boundary(s, i) /\ MatchAt(s, i, w) /\ Boundary(s, i + Len(w))
  THEN DeleteWord(s, w, i + Len(w))
  ELSE <<s[i]>> \o DeleteWord(s, w, i + 1)

\* replace(/\s+/g, ' ')
RECURSIVE CollapseSpaces(_, _)
CollapseSpaces(s, i) ==
  IF i > Len(s) THEN <<>>
  ELSE IF IsSpace(s[i]) THEN <<" ">> \o CollapseSpaces(s, i + SpaceRun(s, i))
  ELSE <<s[i]>> \o CollapseSpaces(s, i + 1)

\* SYNONYM_REPLACEMENTS after the first: the filler words, in order.
FillerWords == <<<<"p", "l", "e", "a", "s", "e">>, <<"t", "h", "e">>, <<"a">>, <<"a", "n">>, <<"m", "y">>>>

RECURSIVE DeleteWords(_, _)
DeleteWords(s, ws) ==
  IF ws = <<>> THEN s ELSE DeleteWords(DeleteWord(s, Head(ws), 1), Tail(ws))

\* normalizeUtterance, on characters.
NormalizeChars(text) ==
  IF text = <<>> THEN <<>>
  ELSE LET low == ToLowerCase(text)
           kept == [i \in DOMAIN low |->
                      IF \/ IsLetter(low[i]) \/ IsDigit(low[i]) \/ IsSpace(low[i])
                         \/ low[i] \in {"%", ".", "-"}
                      THEN low[i] ELSE " "]
       IN Trim(CollapseSpaces(DeleteWords(ReplaceSwitch(kept, 1), FillerWords), 1))

\* The texts a request can carry; the last is normalized to the empty string.
Utterances == {"Turn on the pool pump", "Pool temp on", "The"}

\* normalizeUtterance on the texts of the model, computed once.
normalizeUtterance == [text \in Utterances |-> Str(NormalizeChars(Chars(text)))]

----------------------------------------------------------------------------
(* Scoring and resolution of entities *)

\* The loop of scoreMatch without the point for the entity id.
RECURSIVE ScoreTokens_NameOnly(_, _, _)
ScoreTokens_NameOnly(queryTokens, entityTokens, entityId) ==
  IF queryTokens = <<>> THEN 0
  ELSE (IF Head(queryTokens) \in Range(entityTokens) THEN 3 ELSE 0)
       + ScoreTokens_NameOnly(Tail(queryTokens), entityTokens, entityId)

RECURSIVE ScoreTokens(_, _, _)
ScoreTokens(queryTokens, entityTokens, entityId) ==
  IF queryTokens = <<>> THEN 0
  ELSE (IF Head(queryTokens) \in Range(entityTokens) THEN 3 ELSE 0)
       + (IF Includes(entityId, Head(queryTokens)) THEN 1 ELSE 0)
       + ScoreTokens(Tail(queryTokens), entityTokens, entityId)

\* scoreMatch, homeassistant.js:13-25
scoreMatch(queryTokens, entityTokens, entityId) ==
  IF Len(queryTokens) = 0 THEN 0
  ELSE ScoreTokens(queryTokens, entityTokens, entityId)

\* scoreMatch(..) + (name.toLowerCase().includes(search.toLowerCase()) ? 2 : 0),
\* lines 113-115 and 230-232
NameScore(name, id, search) ==
  scoreMatch(Tokenize(Chars(search)), Tokenize(Chars(name)), Chars(id))
  + (IF Includes(ToLowerCase(Chars(name)), ToLowerCase(Chars(search)))
     THEN 2 ELSE 0)

\* The entities of the hub's inventories and the phrases searched for.
HubEntityIds ==
  (UNION {{inv[i].entity_id : i \in DOMAIN inv} : inv \in HubInventories} \ {Undefined})
  \cup {"switch.pool_pump_2", "light.pool_light"}
Searches ==
  {"pool temperature", "pool temp", "pool pump", "pool", "pool pump two", "lamp"}

\* NameScore on the entities and searches of the model, computed once.
NameScores ==
  [k \in HubEntityIds \X Searches |-> NameScore(NameOf(k[1]), k[1], k[2])]

\* The score resolveEntityId gives an entity of the directory (lines 230-236).
ResolveScore(entity, search) ==
  NameScores[<<entity.entity_id, search>>]
  - (IF entity.state \in {"unknown", "unavailable"} THEN 10 ELSE 0)

\* entitiesByDomain.get(domain) || []
EntitiesOf(domain) ==
  IF domain \in DOMAIN entitiesByDomain THEN entitiesByDomain[domain] ELSE <<>>

RECURSIVE Enumerate(_)
Enumerate(domains) ==
  IF domains = <<>> THEN <<>>
  ELSE EntitiesOf(Head(domains)) \o Enumerate(Tail(domains))

\* The candidate of the highest score that was enumerated last.
ResolveBest_LastWins(domains, search, minScore) ==
  LET all == Enumerate(domains)
      cands == SelectSeq(all, LAMBDA e : ResolveScore(e, search) > 0)
  IN IF cands = <<>> THEN NoId
     ELSE LET best == CHOOSE i \in DOMAIN cands :
                        /\ \A j \in DOMAIN cands :
                             ResolveScore(cands[j], search) <= ResolveScore(cands[i], search)
                        /\ \A j \in (i + 1)..Len(cands) :
                             ResolveScore(cands[j], search) < ResolveScore(cands[i], search)
          IN IF ResolveScore(cands[best], search) < minScore THEN NoId
             ELSE cands[best].entity_id

\* Lines 226-244 of resolveEntityId: the candidates in enumeration order, the
\* first of the highest score (the sort is stable), none below minScore.
ResolveBest(domains, search, minScore) ==
  LET all == Enumerate(domains)
      cands == SelectSeq(all, LAMBDA e : ResolveScore(e, search) > 0)
  IN IF cands = <<>> THEN NoId
     ELSE LET best == CHOOSE i \in DOMAIN cands :
                        /\ \A j \in DOMAIN cands :
                             ResolveScore(cands[j], search) <= ResolveScore(cands[i], search)
                        /\ \A j \in 1..(i - 1) :
                             ResolveScore(cands[j], search) < ResolveScore(cands[i], search)
          IN IF ResolveScore(cands[best], search) < minScore THEN NoId
             ELSE cands[best].entity_id

----------------------------------------------------------------------------
(* The patterns of tryFastPathPlan, on the normalized utterance *)

\* The indexes at which the whole word w stands: \bw\b.
WordPositions(s, w) ==
  {i \in DOMAIN s : Boundary(s, i) /\ MatchAt(s, i, w) /\ Boundary(s, i + Len(w))}

TempWords == {<<"t", "e", "m", "p">>, <<"t", "e", "m", "p", "e", "r", "a", "t", "u", "r", "e">>}

\* poolTempRegexes, index.js:111-116
PoolTempMatch(n) ==
  \E i \in WordPositions(n, <<"p", "o", "o", "l">>) : \E w \in TempWords :
    \E j \in WordPositions(n, w) : j >= i + 4 \/ i >= j + Len(w)

NoMatch == [matched |-> FALSE, desired |-> "", target |-> <<>>]

\* /\bturn\s+(on|off)\s+(.+)$/ tried at index i.
TurnMatchAt(n, i) ==
  LET p == i + 4 + SpaceRun(n, i + 4)
      w == IF MatchAt(n, p, <<"o", "n">>) /\ SpaceRun(n, p + 2) >= 1 THEN <<"o", "n">>
           ELSE IF MatchAt(n, p, <<"o", "f", "f">>) /\ SpaceRun(n, p + 3) >= 1 THEN <<"o", "f", "f">>
           ELSE <<>>
      q == p + Len(w)
      rest == SubSeq(n, q + SpaceRun(n, q), Len(n))
  IN IF /\ Boundary(n, i) /\ MatchAt(n, i, <<"t", "u", "r", "n">>) /\ SpaceRun(n, i + 4) >= 1
        /\ w # <<>>
        /\ (rest # <<>> \/ SpaceRun(n, q) >= 2)
     THEN [matched |-> TRUE, desired |-> IF w = <<"o", "n">> THEN "on" ELSE "off",
           target |-> Trim(rest)]
     ELSE NoMatch

\* normalized.match(/\bturn\s+(on|off)\s+(.+)$/), index.js:126-129: the
\* leftmost match, with targetText trimmed.
TurnMatch(n) ==
  LET at == {i \in DOMAIN n : TurnMatchAt(n, i).matched} IN
  IF at = {} THEN NoMatch
  ELSE TurnMatchAt(n, CHOOSE i \in at : \A j \in at : i <= j)

\* normalized.match(/^(.+)\s+\b(on|off)\b$/), index.js:158-161
SuffixMatch(n) ==
  LET w == IF MatchAt(n, Len(n) - 1, <<"o", "n">>) /\ Boundary(n, Len(n) - 1)
                /\ Len(n) >= 4 /\ IsSpace(n[Len(n) - 2])
           THEN <<"o", "n">>
           ELSE IF MatchAt(n, Len(n) - 2, <<"o", "f", "f">>) /\ Boundary(n, Len(n) - 2)
                /\ Len(n) >= 5 /\ IsSpace(n[Len(n) - 3])
           THEN <<"o", "f", "f">>
           ELSE <<>>
  IN IF w = <<>> THEN NoMatch
     ELSE [matched |-> TRUE, desired |-> IF w = <<"o", "n">> THEN "on" ELSE "off",
           target |-> Trim(SubSeq(n, 1, Len(n) - Len(w) - 1))]

\* looksLikeQuery, index.js:163-168
LooksLikeQuery(t) ==
  \E pre \in {<<"w", "h", "a", "t", " ">>, <<"w", "h", "a", "t", "s", " ">>, <<"w", "h", "a", "t", "'", "s", " ">>, <<"i", "s", " ">>, <<"a", "r", "e", " ">>} :
    StartsWith(t, pre)

\* targetText.split(' ').length
SplitLength(t) == 1 + Cardinality({i \in DOMAIN t : t[i] = " "})

\* ENTITY_MATCH_SCORE, index.js:13-16
ScoreDefault == 4
ScorePool == 3

\* targetText.includes('pool') ? POOL : DEFAULT
MinScoreFor(t) == IF Includes(t, <<"p", "o", "o", "l">>) THEN ScorePool ELSE ScoreDefault

\* What tryFastPathPlan reads off a normalized text: whether the sensor
\* pattern matches, and for the two imperative patterns whether the rule
\* applies, the state desired, the text searched for and its minScore.
FastRules(n) ==
  LET turn == TurnMatch(n)
      suffix == SuffixMatch(n)
  IN [pool |-> PoolTempMatch(n),
      turn |-> [applies |-> turn.matched, desired |-> turn.desired,
                search |-> Str(turn.target), minScore |-> MinScoreFor(turn.target)],
      suffix |-> [applies |-> /\ suffix.matched
                              /\ ~LooksLikeQuery(suffix.target)
                              /\ SplitLength(suffix.target) <= 6,
                  desired |-> suffix.desired,
                  search |-> Str(suffix.target), minScore |-> MinScoreFor(suffix.target)]]

\* The normalized texts tryFastPathPlan is called with on its own.
FastTexts ==
  {"turn on pool pump", "turn off pool pump", "turn on pool temp", "pool temp on",
   "turn on lamp", "lamp off", "turn on pool", "pool on"}

\* FastRules on the normalized texts of the model, computed once.
FastRulesOf ==
  [n \in {normalizeUtterance[text] : text \in Utterances} \cup FastTexts \cup {""} |->
     FastRules(Chars(n))]

----------------------------------------------------------------------------
(* The Plan Cache: IntentCache *)

HasKey(map, key) == \E i \in DOMAIN map : map[i].key = key
EntryOf(map, key) == map[CHOOSE i \in DOMAIN map : map[i].key = key]
Without(map, key) == SelectSeq(map, LAMBDA e : e.key # key)

\* A get that leaves the entry it returns where it is.
CacheGet_NoTouch(map, key, now) ==
  IF ~HasKey(map, key) THEN [map |-> map, value |-> NoPlan]
  ELSE LET entry == EntryOf(map, key) IN
       IF now > entry.expiresAt
       THEN [map |-> Without(map, key), value |-> NoPlan]
       ELSE [map |-> map, value |-> entry.value]

\* A get that renews the expiry time of the entry it returns.
CacheGet_Renews(map, key, now) ==
  IF ~HasKey(map, key) THEN [map |-> map, value |-> NoPlan]
  ELSE LET entry == EntryOf(map, key) IN
       IF now > entry.expiresAt
       THEN [map |-> Without(map, key), value |-> NoPlan]
       ELSE [map |-> Append(Without(map, key),
                            [entry EXCEPT !.expiresAt = now + IntentCacheTtlMs]),
             value |-> entry.value]

\* IntentCache.get: the map it leaves and the value it returns.  An entry
\* that is returned moves to the end of the Map.
CacheGet(map, key, now) ==
  IF ~HasKey(map, key) THEN [map |-> map, value |-> NoPlan]
  ELSE LET entry == EntryOf(map, key) IN
       IF now > entry.expiresAt
       THEN [map |-> Without(map, key), value |-> NoPlan]
       ELSE [map |-> Append(Without(map, key), entry), value |-> entry.value]

\* The eviction loop left out.
EvictTo_Never(map, maxEntries) == map

\* while (this.map.size > this.maxEntries) delete the oldest key
RECURSIVE EvictTo(_, _)
EvictTo(map, maxEntries) ==
  IF Len(map) > maxEntries THEN EvictTo(Tail(map), maxEntries) ELSE map

\* The eviction loop of the handler's cache
Evict(map) == EvictTo(map, IntentCacheMax)

\* IntentCache.set(key, value, { ttlMs }) of a cache of maxEntries entries
CacheSetWith(map, key, value, now, ttlMs, maxEntries) ==
  EvictTo(Append(Without(map, key),
                 [key |-> key, value |-> value, expiresAt |-> now + ttlMs]),
          maxEntries)

\* A set that leaves the entry of a key that is stored as it is.
CacheSet_KeepsFirst(map, key, value, now) ==
  IF HasKey(map, key) THEN map
  ELSE Evict(Append(map, [key |-> key, value |-> value,
                          expiresAt |-> now + IntentCacheTtlMs]))

\* IntentCache.set with the default TTL
CacheSet(map, key, value, now) ==
  Evict(Append(Without(map, key),
               [key |-> key, value |-> value, expiresAt |-> now + IntentCacheTtlMs]))

\* IntentCache.delete
CacheDelete(map, key) == Without(map, key)

----------------------------------------------------------------------------
(* Tool calls and plans: voicePlan.js *)

\* A tool call { name, input }: the fields of input side by side, hasInput
\* for the presence of input itself.
CallServiceTool(domain, service, id) ==
  [name |-> "call_service", hasInput |-> TRUE, domain |-> domain,
   service |-> service, entity_id |-> id, search |-> ""]

GetStateTool(id) ==
  [name |-> "get_entity_state", hasInput |-> TRUE, domain |-> "",
   service |-> "none", entity_id |-> id, search |-> ""]

FindTool(domain, search) ==
  [name |-> "find_entities", hasInput |-> TRUE, domain |-> domain,
   service |-> "none", entity_id |-> NoId, search |-> search]

\* A tool_use block whose name is none of the three of the catalog.
UnknownTool ==
  [name |-> "open_garage", hasInput |-> TRUE, domain |-> "",
   service |-> "none", entity_id |-> NoId, search |-> ""]

\* Malformed tool calls: one without a name, one without an input.
NamelessTool == [GetStateTool("switch.pool_pump") EXCEPT !.name = Undefined]
InputlessTool ==
  [name |-> "call_service", hasInput |-> FALSE, domain |-> "",
   service |-> "none", entity_id |-> NoId, search |-> ""]

\* A discovery taken for a call that can be replayed.
isCacheableToolCall_AllowsDiscovery(toolCall) ==
  IF toolCall.name = Undefined \/ ~toolCall.hasInput THEN FALSE
  ELSE IF toolCall.name = "call_service"
  THEN toolCall.entity_id # NoId /\ toolCall.service # "toggle"
  ELSE toolCall.name \in {"get_entity_state", "find_entities"}

\* The toggle test of line 16 left out.
isCacheableToolCall_AllowsToggle(toolCall) ==
  IF toolCall.name = Undefined \/ ~toolCall.hasInput THEN FALSE
  ELSE IF toolCall.name = "call_service"
  THEN toolCall.entity_id # NoId
  ELSE IF toolCall.name = "get_entity_state"
  THEN toolCall.entity_id # NoId
  ELSE FALSE

isCacheableToolCall(toolCall) ==
  IF toolCall.name = Undefined \/ ~toolCall.hasInput THEN FALSE
  ELSE IF toolCall.name = "call_service"
  THEN toolCall.entity_id # NoId /\ toolCall.service # "toggle"
  ELSE IF toolCall.name = "get_entity_state"
  THEN toolCall.entity_id # NoId
  ELSE FALSE

\* The plan built of every tool use that was seen.
buildPlanFromToolUses_Unfiltered(toolUses) ==
  IF Len(toolUses) = 0 THEN NoPlan
  ELSE [version |-> 1, toolCalls |-> toolUses]

buildPlanFromToolUses(toolUses) ==
  LET concreteCalls == SelectSeq(toolUses, isCacheableToolCall) IN
  IF Len(concreteCalls) = 0 THEN NoPlan
  ELSE [version |-> 1, toolCalls |-> concreteCalls]

\* The loop of lines 44-47 over the plan as it is listed.
OtherCalls_AsListed(plan) == plan.toolCalls

\* executePlan's two filters
OtherCalls(plan) == SelectSeq(plan.toolCalls, LAMBDA c : c.name # "get_entity_state")
StateReads(plan) == SelectSeq(plan.toolCalls, LAMBDA c : c.name = "get_entity_state")

\* attributes.unit_of_measurement of the hub's records (the sensor has one).
UnitOf(id) ==
  CASE id = "sensor.pool_temp" -> "C"
    [] OTHER -> Undefined

\* `${name} is ${state}${unit}.` or `${name} is ${state}.`, as its parts
formatStateForSpeech(id, state) ==
  IF UnitOf(id) # Undefined THEN <<NameOf(id), "is", state, UnitOf(id)>>
  ELSE <<NameOf(id), "is", state>>

\* A summary made up of the id for an entity the snapshot does not hold.
getEntitySummary_Fallback(id) ==
  IF Known(id) THEN [entity_id |-> id, name |-> NameOf(id), domain |-> DomainOf(id)]
  ELSE [entity_id |-> id, name |-> id, domain |-> DomainOf(id)]

\* getEntitySummary, homeassistant.js:208-217: Undefined for null
getEntitySummary(id) ==
  IF Known(id) THEN [entity_id |-> id, name |-> NameOf(id), domain |-> DomainOf(id)]
  ELSE [entity_id |-> id, name |-> Undefined, domain |-> Undefined]

\* The confirmation rendered of the first result of the list.
renderResponseFromToolResults_First(toolResults) ==
  IF toolResults = <<>> THEN <<"Done.">>
  ELSE LET last == toolResults[1] IN
       IF last.name = "call_service"
       THEN IF /\ last.input.entity_id # NoId
               /\ getEntitySummary(last.input.entity_id).name # Undefined
               /\ last.input.service \in {"turn_on", "turn_off"}
            THEN <<IF last.input.service = "turn_on" THEN "Turned on" ELSE "Turned off",
                   getEntitySummary(last.input.entity_id).name>>
            ELSE <<"Done.">>
       ELSE IF last.name = "get_entity_state"
       THEN formatStateForSpeech(last.input.entity_id, last.result)
       ELSE <<"Done.">>

renderResponseFromToolResults(toolResults) ==
  IF toolResults = <<>> THEN <<"Done.">>
  ELSE LET last == toolResults[Len(toolResults)] IN
       IF last.name = "call_service"
       THEN IF /\ last.input.entity_id # NoId
               /\ getEntitySummary(last.input.entity_id).name # Undefined
               /\ last.input.service \in {"turn_on", "turn_off"}
            THEN <<IF last.input.service = "turn_on" THEN "Turned on" ELSE "Turned off",
                   getEntitySummary(last.input.entity_id).name>>
            ELSE <<"Done.">>
       ELSE IF last.name = "get_entity_state"
       THEN formatStateForSpeech(last.input.entity_id, last.result)
       ELSE <<"Done.">>

----------------------------------------------------------------------------
(* resolveEntityId, findEntities and executeTool in the hub client *)

\* resolveEntityId, lines 220-223
ResolveStart(t) ==
  /\ task[t].pc = "re_start"
  /\ IF task[t].arg.domains = <<>> \/ task[t].arg.search = ""
     THEN /\ task' = [task EXCEPT ![t] = Finish(task[t], "ok", "resolve", NoId)]
          /\ UNCHANGED <<voiceVars, clock, dirVars, refreshInFlight, promise>>
     ELSE RefreshStates(t, FALSE, "re_score")

\* resolveEntityId, lines 224-244
ResolveRank(t) ==
  /\ task[t].pc = "re_score"
  /\ UNCHANGED <<voiceVars, clock, dirVars, refreshInFlight, promise>>
  /\ task' = [task EXCEPT ![t] =
                Finish(task[t], "ok", "resolve",
                       ResolveBest(task[t].arg.domains, task[t].arg.search,
                                   task[t].arg.minScore))]

\* The score findEntities gives an entity (lines 113-115).
FindScore(entity, search) == NameScores[<<entity.entity_id, search>>]

\* sort((a, b) => b.score - a.score): descending and stable.
RECURSIVE SortByScore(_, _)
SortByScore(entities, search) ==
  IF entities = <<>> THEN <<>>
  ELSE LET e == entities[Len(entities)]
           init == SortByScore(SubSeq(entities, 1, Len(entities) - 1), search)
           k == Cardinality({i \in DOMAIN init :
                               FindScore(init[i], search) >= FindScore(e, search)})
       IN SubSeq(init, 1, k) \o <<e>> \o SubSeq(init, k + 1, Len(init))

\* slice(0, 50)
Slice50(s) == SubSeq(s, 1, IF Len(s) < 50 THEN Len(s) ELSE 50)

\* findEntities, lines 106-125
FindEntities(domain, search) ==
  IF search = "" THEN Slice50(EntitiesOf(domain))
  ELSE Slice50(SortByScore(
         SelectSeq(EntitiesOf(domain), LAMBDA e : FindScore(e, search) > 0), search))

\* findEntities, lines 103-104
FindStart(t) ==
  /\ task[t].pc = "fe_start"
  /\ IF task[t].arg.domains = <<>>
     THEN /\ task' = [task EXCEPT ![t] = Finish(task[t], "err", "required", "none")]
          /\ UNCHANGED <<voiceVars, clock, dirVars, refreshInFlight, promise>>
     ELSE RefreshStates(t, FALSE, "fe_list")

FindList(t) ==
  /\ task[t].pc = "fe_list"
  /\ UNCHANGED <<voiceVars, clock, dirVars, refreshInFlight, promise>>
  /\ task' = [task EXCEPT ![t] =
                Finish(task[t], "ok", "list",
                       FindEntities(task[t].arg.domains[1], task[t].arg.search))]

\* executeTool: the call of the client a tool call becomes; the default case
\* of the switch raises at once.
executeTool(call) ==
  IF call.name = "call_service"
  THEN [NewCall("callService", "cs_start", FALSE, call.entity_id)
          EXCEPT !.arg = [NoArg EXCEPT !.domains = <<call.domain>>,
                                       !.service = call.service]]
  ELSE IF call.name = "get_entity_state"
  THEN NewCall("getEntityState", "gs_start", FALSE, call.entity_id)
  ELSE IF call.name = "find_entities"
  THEN [NewCall("findEntities", "fe_start", FALSE, NoId)
          EXCEPT !.arg = [NoArg EXCEPT !.domains = <<call.domain>>,
                                       !.search = call.search]]
  ELSE [NewCall("executeTool", "done", FALSE, NoId)
          EXCEPT !.res = "err", !.src = "unknown_tool"]

\* ha.resolveEntityId({ domains, search, minScore })
ResolveCall(domains, search, minScore) ==
  [NewCall("resolveEntityId", "re_start", FALSE, NoId)
     EXCEPT !.arg = [NoArg EXCEPT !.domains = domains, !.search = search,
                                  !.minScore = minScore]]

----------------------------------------------------------------------------
(* The POST /voice handler.  The calls of the hub client it awaits run as   *)
(* tasks; a call is given a task that is idle.                              *)

\* The tool_use blocks a model response can carry.
ModelToolUses ==
  { <<FindTool("switch", "pool"),
      CallServiceTool("switch", "toggle", "switch.pool_pump")>>,
    <<UnknownTool, GetStateTool("switch.pool_pump"),
      GetStateTool("sensor.pool_temp")>> }

\* The text block of a final model response.
ModelText == "Okay."

Apology == <<"Sorry, I encountered an error processing your request.">>

FreeTasks(tk) == {t \in Tasks : tk[t].pc = "idle"}
NthFree(tk, n) ==
  CHOOSE t \in FreeTasks(tk) : Cardinality({u \in FreeTasks(tk) : u < t}) = n - 1

Release(tk, t) == [tk EXCEPT ![t] = IdleTask]

\* The handler awaits one call of the hub client.
Await1(r, tk, call, pc) ==
  /\ FreeTasks(tk) # {}
  /\ req' = [r EXCEPT !.pc = pc, !.waits = <<NthFree(tk, 1)>>]
  /\ task' = [tk EXCEPT ![NthFree(tk, 1)] = call]

\* res.json / res.status(..).json: the request is answered by the tier it
\* was in, and the handler's locals are gone.
Respond(r, tk, status, body) ==
  /\ req' = [IdleReq EXCEPT !.pc = "responded", !.tier = r.tier,
                            !.status = status, !.body = body]
  /\ task' = tk

\* The outer catch, index.js:100-105
HandlerCatch(r, tk) == Respond(r, tk, 500, Apology)

\* processVoiceCommand up to its first model call, index.js:273-283
ProcessVoiceCommand(r, tk) ==
  /\ req' = [r EXCEPT !.pc = "llm_wait", !.tier = "llm", !.nLLM = @ + 1,
                      !.plan = NoPlan, !.idx = 0, !.results = <<>>, !.err = NoErr,
                      !.toolUsesSeen = <<>>, !.toolUseBlocks = <<>>,
                      !.rounds = 0, !.waits = <<>>]
  /\ task' = tk

\* The for loop of lines 290-309 with r.idx blocks done, then the next model
\* call of lines 311-323.  The conversation of lines 311-315 is followed for
\* a request whose record holds its first message; the tiers of the handler
\* do not read it.
LlmNextTool(r, tk) ==
  IF r.idx < Len(r.toolUseBlocks)
  THEN Await1([r EXCEPT !.idx = @ + 1,
                        !.toolUsesSeen = Append(@, r.toolUseBlocks[r.idx + 1])],
              tk, executeTool(r.toolUseBlocks[r.idx + 1]), "llm_tool")
  ELSE /\ req' = [r EXCEPT !.pc = "llm_wait", !.toolUseBlocks = <<>>, !.idx = 0,
                           !.messages = IF @ = <<>> THEN @
                                        ELSE @ \o <<[role |-> "assistant",
                                                     content |-> r.toolUseBlocks],
                                                    [role |-> "user",
                                                     content |-> r.results]>>]
       /\ task' = tk

\* executePlan, lines 49-60: the state reads start together.
ExecReads(r, tk) ==
  LET reads == StateReads(r.plan) IN
  IF reads = <<>>
  THEN /\ req' = [r EXCEPT !.pc = "exec_ok", !.waits = <<>>]
       /\ task' = tk
  ELSE /\ Cardinality(FreeTasks(tk)) >= Len(reads)
       /\ req' = [r EXCEPT !.pc = "exec_reads",
                           !.waits = [i \in DOMAIN reads |-> NthFree(tk, i)]]
       /\ task' = [t \in Tasks |->
                     IF \E i \in DOMAIN reads : NthFree(tk, i) = t
                     THEN executeTool(reads[CHOOSE i \in DOMAIN reads : NthFree(tk, i) = t])
                     ELSE tk[t]]

\* executePlan, lines 44-47: the other calls one after the other; r.idx of
\* them have been made.
ExecOthers(r, tk) ==
  LET others == OtherCalls(r.plan) IN
  IF r.idx < Len(others)
  THEN Await1([r EXCEPT !.idx = @ + 1], tk, executeTool(others[r.idx + 1]), "exec_call")
  ELSE ExecReads(r, tk)

\* await executePlan({ ha, plan }) in the tier given
ExecutePlan(r, tk, plan, tier) ==
  ExecOthers([r EXCEPT !.tier = tier, !.plan = plan, !.idx = 0, !.results = <<>>], tk)

ToolResult(call, done) == [name |-> call.name, input |-> call, result |-> done.val]

\* The call_service plan with turn_on whatever word was matched.
ServicePlan_AlwaysOn(entityId, desired) ==
  [version |-> 1,
   toolCalls |-> <<CallServiceTool(DomainOf(entityId), "turn_on", entityId)>>]

\* The call_service plan of lines 141-154 and 181-194
ServicePlan(entityId, desired) ==
  [version |-> 1,
   toolCalls |-> <<CallServiceTool(DomainOf(entityId),
                                   IF desired = "on" THEN "turn_on" ELSE "turn_off",
                                   entityId)>>]

\* The get_entity_state plan of line 122
ReadPlan(entityId) == [version |-> 1, toolCalls |-> <<GetStateTool(entityId)>>]

\* tryFastPathPlan returns plan (NoPlan for null) to its caller.  The
\* handler, which has the request's text, goes on at index.js:82-97: it
\* executes the plan, or calls processVoiceCommand when there is none.  A
\* call of tryFastPathPlan on its own ends with the plan it returned.
FastPathReturns(r, tk, plan) ==
  IF r.text # ""
  THEN IF plan # NoPlan THEN ExecutePlan(r, tk, plan, "fast")
       ELSE ProcessVoiceCommand(r, tk)
  ELSE /\ req' = [r EXCEPT !.pc = "fp_returned", !.plan = plan]
       /\ task' = tk

\* tryFastPathPlan raises the error of a resolution: the handler's outer
\* catch, or the end of the call made on its own.
FastPathThrows(r, tk) ==
  IF r.text # "" THEN HandlerCatch(r, tk)
  ELSE /\ req' = [r EXCEPT !.pc = "fp_threw"]
       /\ task' = tk

\* tryFastPathPlan, lines 158-199
FastSuffixRule(r, tk) ==
  LET m == FastRulesOf[r.normalized].suffix IN
  IF m.applies
  THEN Await1(r, tk, ResolveCall(<<"light", "switch">>, m.search, m.minScore),
              "fast_suffix")
  ELSE FastPathReturns(r, tk, NoPlan)

\* tryFastPathPlan, lines 126-138
FastTurnRule(r, tk) ==
  LET m == FastRulesOf[r.normalized].turn IN
  IF m.applies
  THEN Await1(r, tk, ResolveCall(<<"light", "switch">>, m.search, m.minScore),
              "fast_turn")
  ELSE FastSuffixRule(r, tk)

\* const fastPlan = await tryFastPathPlan(..), index.js:81 and 108-119
TryFastPathPlan(r, tk) ==
  LET r1 == [r EXCEPT !.nFast = @ + 1, !.tier = "fast", !.plan = NoPlan,
                      !.idx = 0, !.results = <<>>, !.waits = <<>>, !.err = NoErr]
  IN IF r.normalized = "" THEN FastPathReturns(r1, tk, NoPlan)
     ELSE IF FastRulesOf[r.normalized].pool
     THEN Await1(r1, tk, ResolveCall(<<"sensor">>, "pool temperature", ScorePool),
                 "fast_pool1")
     ELSE FastTurnRule(r1, tk)

\* The handler called with the body's text, index.js:58-81 up to the first
\* await; fresh is the record of a request that has just come in.
VoiceHandler(fresh, text) ==
  IF text = ""
  THEN /\ intentCache' = intentCache
       /\ Respond([fresh EXCEPT !.text = text], task, 400, <<"No text provided">>)
  ELSE LET normalized == normalizeUtterance[text]
           got == CacheGet(intentCache, normalized, clock)
           r == [fresh EXCEPT !.text = text, !.normalized = normalized]
       IN /\ intentCache' = got.map
          /\ IF got.value # NoPlan
             THEN ExecutePlan(
                    [r EXCEPT !.hitExpiresAt = EntryOf(intentCache, normalized).expiresAt],
                    task, got.value, "cache")
             ELSE TryFastPathPlan(r, task)

\* A request arrives: index.js:58-81 up to the first await.  Requests come
\* one after the other, each when the hub calls of the one before have ended.
Receive ==
  /\ req.pc \in {"idle", "responded"}
  /\ \A t \in Tasks : task[t].pc = "idle"
  /\ UNCHANGED <<cacheCall, clock, dirVars, refreshInFlight, promise>>
  /\ \E text \in Utterances \cup {""} : VoiceHandler(IdleReq, text)

\* History of a request: the call_service calls the hub has accepted, each
\* with the tier that made it.  It is followed for a request whose record
\* has the field.
Posted(r, call, done) ==
  IF "posted" \in DOMAIN r /\ call.name = "call_service" /\ done.res = "ok"
  THEN [r EXCEPT !.posted = Append(@, [tier |-> r.tier, call |-> call])]
  ELSE r

\* The loop of lines 44-47 going on after a call that failed.
ExecCallDone_Continues ==
  /\ req.pc = "exec_call"
  /\ task[req.waits[1]].pc = "done"
  /\ UNCHANGED <<cacheCall, clock, dirVars, refreshInFlight, promise, intentCache>>
  /\ LET t == req.waits[1]
         call == OtherCalls(req.plan)[req.idx]
     IN ExecOthers([req EXCEPT !.results = Append(@, ToolResult(call, task[t])),
                               !.waits = <<>>],
                   Release(task, t))

\* executePlan: a call of lines 44-47 has settled.
ExecCallDone ==
  /\ req.pc = "exec_call"
  /\ task[req.waits[1]].pc = "done"
  /\ UNCHANGED <<cacheCall, clock, dirVars, refreshInFlight, promise, intentCache>>
  /\ LET t == req.waits[1]
         call == OtherCalls(req.plan)[req.idx]
     IN IF task[t].res = "err"
        THEN /\ req' = [req EXCEPT !.pc = "exec_err", !.waits = <<>>,
                                   !.err = [src |-> task[t].src, call |-> call]]
             /\ task' = Release(task, t)
        ELSE ExecOthers([Posted(req, call, task[t])
                           EXCEPT !.results = Append(@, ToolResult(call, task[t])),
                                  !.waits = <<>>],
                        Release(task, t))

\* executePlan: the Promise.all of lines 50-57 settles, with the first read
\* that fails or when every read has succeeded.  The reads still running when
\* it rejects run on.
ExecReadsDone ==
  /\ req.pc = "exec_reads"
  /\ UNCHANGED <<cacheCall, clock, dirVars, refreshInFlight, promise, intentCache>>
  /\ LET ws == req.waits
         reads == StateReads(req.plan)
         failed == \E i \in DOMAIN ws : task[ws[i]].pc = "done" /\ task[ws[i]].res = "err"
     IN /\ failed \/ \A i \in DOMAIN ws : task[ws[i]].pc = "done"
        /\ IF failed
           THEN /\ \E i \in DOMAIN ws :
                     /\ task[ws[i]].pc = "done" /\ task[ws[i]].res = "err"
                     /\ req' = [req EXCEPT !.pc = "exec_err", !.waits = <<>>,
                                           !.err = [src |-> task[ws[i]].src,
                                                    call |-> reads[i]]]
                /\ task' = [t \in Tasks |->
                              IF t \notin Range(ws) THEN task[t]
                              ELSE IF task[t].pc = "done" THEN IdleTask
                              ELSE [task[t] EXCEPT !.orphan = TRUE]]
           ELSE /\ req' = [req EXCEPT
                             !.pc = "exec_ok", !.waits = <<>>,
                             !.results = @ \o [i \in DOMAIN ws |->
                                                 ToolResult(reads[i], task[ws[i]])]]
                /\ task' = [t \in Tasks |-> IF t \in Range(ws) THEN IdleTask ELSE task[t]]

\* The cached plan's success written through to the cache as the fast path does.
CacheHitReturn_Rewrites ==
  /\ req.pc = "exec_ok" /\ req.tier = "cache"
  /\ UNCHANGED <<cacheCall, clock, dirVars, refreshInFlight, promise>>
  /\ intentCache' = CacheSet(intentCache, req.normalized, req.plan, clock)
  /\ Respond(req, task, 200, renderResponseFromToolResults(req.results))

\* index.js:72-74: the cached plan ran.
CacheHitReturn ==
  /\ req.pc = "exec_ok" /\ req.tier = "cache"
  /\ UNCHANGED <<cacheCall, clock, dirVars, refreshInFlight, promise, intentCache>>
  /\ Respond(req, task, 200, renderResponseFromToolResults(req.results))

\* The catch of the cached plan without its delete.
CacheHitCatch_KeepsEntry ==
  /\ req.pc = "exec_err" /\ req.tier = "cache"
  /\ UNCHANGED <<cacheCall, clock, dirVars, refreshInFlight, promise>>
  /\ intentCache' = intentCache
  /\ TryFastPathPlan([req EXCEPT !.nDel = @ + 1], task)

\* index.js:75-81: the cached plan failed.
CacheHitCatch ==
  /\ req.pc = "exec_err" /\ req.tier = "cache"
  /\ UNCHANGED <<cacheCall, clock, dirVars, refreshInFlight, promise>>
  /\ intentCache' = CacheDelete(intentCache, req.normalized)
  /\ TryFastPathPlan([req EXCEPT !.nDel = @ + 1], task)

\* index.js:85-88: the fast plan ran.
FastReturn ==
  /\ req.pc = "exec_ok" /\ req.tier = "fast"
  /\ UNCHANGED <<cacheCall, clock, dirVars, refreshInFlight, promise>>
  /\ intentCache' = CacheSet(intentCache, req.normalized, req.plan, clock)
  /\ Respond([req EXCEPT !.nSet = @ + 1], task, 200,
             renderResponseFromToolResults(req.results))

\* The catch of the fast plan storing the plan that failed.
FastCatch_StoresPlan ==
  /\ req.pc = "exec_err" /\ req.tier = "fast"
  /\ UNCHANGED <<cacheCall, clock, dirVars, refreshInFlight, promise>>
  /\ intentCache' = CacheSet(intentCache, req.normalized, req.plan, clock)
  /\ ProcessVoiceCommand(req, task)

\* index.js:89-95: the fast plan failed.
FastCatch ==
  /\ req.pc = "exec_err" /\ req.tier = "fast"
  /\ UNCHANGED <<cacheCall, clock, dirVars, refreshInFlight, promise, intentCache>>
  /\ ProcessVoiceCommand(req, task)

\* tryFastPathPlan, lines 118-123: the first resolution of the pool sensor
\* has settled.  An error of the resolution leaves tryFastPathPlan and the
\* handler's try.
FastPool1Done ==
  /\ req.pc = "fast_pool1"
  /\ task[req.waits[1]].pc = "done"
  /\ UNCHANGED <<cacheCall, clock, dirVars, refreshInFlight, promise, intentCache>>
  /\ LET t == req.waits[1]
         r == [req EXCEPT !.waits = <<>>]
     IN IF task[t].res = "err" THEN FastPathThrows(r, Release(task, t))
        ELSE IF task[t].val # NoId
        THEN FastPathReturns(r, Release(task, t), ReadPlan(task[t].val))
        ELSE Await1(r, Release(task, t),
                    ResolveCall(<<"sensor">>, "pool temp", ScorePool), "fast_pool2")

\* tryFastPathPlan, lines 119-126
FastPool2Done ==
  /\ req.pc = "fast_pool2"
  /\ task[req.waits[1]].pc = "done"
  /\ UNCHANGED <<cacheCall, clock, dirVars, refreshInFlight, promise, intentCache>>
  /\ LET t == req.waits[1]
         r == [req EXCEPT !.waits = <<>>]
     IN IF task[t].res = "err" THEN FastPathThrows(r, Release(task, t))
        ELSE IF task[t].val # NoId
        THEN FastPathReturns(r, Release(task, t), ReadPlan(task[t].val))
        ELSE FastTurnRule(r, Release(task, t))

\* tryFastPathPlan, lines 134-158
FastTurnDone ==
  /\ req.pc = "fast_turn"
  /\ task[req.waits[1]].pc = "done"
  /\ UNCHANGED <<cacheCall, clock, dirVars, refreshInFlight, promise, intentCache>>
  /\ LET t == req.waits[1]
         r == [req EXCEPT !.waits = <<>>]
     IN IF task[t].res = "err" THEN FastPathThrows(r, Release(task, t))
        ELSE IF task[t].val # NoId
        THEN FastPathReturns(r, Release(task, t),
                             ServicePlan(task[t].val,
                                         FastRulesOf[req.normalized].turn.desired))
        ELSE FastSuffixRule(r, Release(task, t))

\* tryFastPathPlan, lines 174-199
FastSuffixDone ==
  /\ req.pc = "fast_suffix"
  /\ task[req.waits[1]].pc = "done"
  /\ UNCHANGED <<cacheCall, clock, dirVars, refreshInFlight, promise, intentCache>>
  /\ LET t == req.waits[1]
         r == [req EXCEPT !.waits = <<>>]
     IN IF task[t].res = "err" THEN FastPathThrows(r, Release(task, t))
        ELSE IF task[t].val # NoId
        THEN FastPathReturns(r, Release(task, t),
                             ServicePlan(task[t].val,
                                         FastRulesOf[req.normalized].suffix.desired))
        ELSE FastPathReturns(r, Release(task, t), NoPlan)

\* The final response storing the plan without the test of normalized.
ModelResponds_StoresAnyKey(rounds, toolUses, texts) ==
  /\ req.pc = "llm_wait"
  /\ IoEnabled
  /\ UNCHANGED <<cacheCall, clock, dirVars, refreshInFlight, promise>>
  /\ \/ /\ intentCache' = intentCache
        /\ HandlerCatch(req, task)
     \/ /\ req.rounds < rounds
        /\ intentCache' = intentCache
        /\ \E blocks \in toolUses :
             LlmNextTool([req EXCEPT !.toolUseBlocks = blocks, !.idx = 0,
                                     !.results = <<>>, !.rounds = @ + 1], task)
     \/ \E text \in texts :
          LET plan == buildPlanFromToolUses(req.toolUsesSeen)
              store == plan # NoPlan
          IN /\ intentCache' = IF store
                               THEN CacheSet(intentCache, req.normalized, plan, clock)
                               ELSE intentCache
             /\ Respond([req EXCEPT !.nSet = @ + (IF store THEN 1 ELSE 0)], task, 200,
                        <<IF text \notin {Undefined, ""} THEN text ELSE "Done.">>)

\* anthropic.messages.create settles: processVoiceCommand, lines 277-334.
\* The call fails; or the response has stop_reason tool_use and the blocks
\* given, which the model sends in rounds rounds at most; or it is a final
\* response with the text given.
ModelResponds(rounds, toolUses, texts) ==
  /\ req.pc = "llm_wait"
  /\ IoEnabled
  /\ UNCHANGED <<cacheCall, clock, dirVars, refreshInFlight, promise>>
  /\ \/ /\ intentCache' = intentCache
        /\ HandlerCatch(req, task)
     \/ /\ req.rounds < rounds
        /\ intentCache' = intentCache
        /\ \E blocks \in toolUses :
             LlmNextTool([req EXCEPT !.toolUseBlocks = blocks, !.idx = 0,
                                     !.results = <<>>, !.rounds = @ + 1], task)
     \/ \E text \in texts :
          LET plan == buildPlanFromToolUses(req.toolUsesSeen)
              store == plan # NoPlan /\ req.normalized # ""
          IN /\ intentCache' = IF store
                               THEN CacheSet(intentCache, req.normalized, plan, clock)
                               ELSE intentCache
             /\ Respond([req EXCEPT !.nSet = @ + (IF store THEN 1 ELSE 0)], task, 200,
                        <<IF text \notin {Undefined, ""} THEN text ELSE "Done.">>)

ModelRespond == ModelResponds(MaxRounds, ModelToolUses, {ModelText, Undefined})

\* The tool_result block of lines 295-307 for a call that has settled.
\* The tool_result of a call that failed without its is_error flag.
ToolResultBlock_Unflagged(id, done) ==
  [type |-> "tool_result", tool_use_id |-> id,
   content |-> IF done.res = "err" THEN <<"error", done.src>> ELSE done.val,
   is_error |-> FALSE]

\* A tool_use block's id is its place in the response.
ToolResultBlock(id, done) ==
  IF done.res = "err"
  THEN [type |-> "tool_result", tool_use_id |-> id,
        content |-> <<"error", done.src>>, is_error |-> TRUE]
  ELSE [type |-> "tool_result", tool_use_id |-> id,
        content |-> done.val, is_error |-> FALSE]

\* The catch of lines 300-308 left out: the tool's error leaves the loop.
LlmToolDone_Uncaught ==
  /\ req.pc = "llm_tool"
  /\ task[req.waits[1]].pc = "done"
  /\ UNCHANGED <<cacheCall, clock, dirVars, refreshInFlight, promise, intentCache>>
  /\ LET t == req.waits[1]
         r == [req EXCEPT !.waits = <<>>,
                          !.results = Append(@, ToolResultBlock(req.idx, task[t]))]
     IN IF task[t].res = "err" THEN HandlerCatch(r, Release(task, t))
        ELSE LlmNextTool(r, Release(task, t))

\* Lines 293-323: the tool call has settled, its outcome or its error is
\* pushed as a tool_result; after the last block of the round the results go
\* back to the model.
LlmToolDone ==
  /\ req.pc = "llm_tool"
  /\ task[req.waits[1]].pc = "done"
  /\ UNCHANGED <<cacheCall, clock, dirVars, refreshInFlight, promise, intentCache>>
  /\ LlmNextTool([Posted(req, req.toolUseBlocks[req.idx], task[req.waits[1]])
                    EXCEPT !.waits = <<>>,
                           !.results = Append(@, ToolResultBlock(req.idx,
                                                                 task[req.waits[1]]))],
                 Release(task, req.waits[1]))

\* One request after the other through the three tiers.
VoiceNext ==
  \/ Tick
  \/ Receive
  \/ ExecCallDone
  \/ ExecReadsDone
  \/ CacheHitReturn
  \/ CacheHitCatch
  \/ FastReturn
  \/ FastCatch
  \/ FastPool1Done
  \/ FastPool2Done
  \/ FastTurnDone
  \/ FastSuffixDone
  \/ ModelRespond
  \/ LlmToolDone
  \/ \E t \in Tasks : RefreshFinally(t)
  \/ \E t \in Tasks : RefreshJoined(t)
  \/ \E t \in Tasks : GetStateStart(t)
  \/ \E t \in Tasks : GetStateCheck1(t)
  \/ \E t \in Tasks : GetStateCheck2(t)
  \/ \E t \in Tasks : CallServiceStart(t)
  \/ \E t \in Tasks : CallServiceCheck1(t)
  \/ \E t \in Tasks : CallServiceCheck2(t)
  \/ \E t \in Tasks : ResolveStart(t)
  \/ \E t \in Tasks : ResolveRank(t)
  \/ \E t \in Tasks : FindStart(t)
  \/ \E t \in Tasks : FindList(t)
  \/ \E p \in PromiseIds : HubBulkRespond(p)
  \/ \E t \in Tasks : HubPointRespond(t)
  \/ \E t \in Tasks : HubControlRespond(t)

SpecVoice == Init /\ [][VoiceNext]_vars

----------------------------------------------------------------------------
(* executePlan on its own: a caller that executes one plan after the other *)
(* against the hub client.                                                 *)

\* The plans the caller executes: reads and other calls interleaved, and
\* the empty plan.
ModelPlans ==
  { <<GetStateTool("sensor.pool_temp"),
      CallServiceTool("switch", "turn_on", "switch.pool_pump"),
      GetStateTool("switch.pool_pump"),
      CallServiceTool("light", "turn_off", "light.lamp")>>,
    <<>> }

\* const toolResults = await executePlan({ ha, plan }): the call
CallExecutePlan ==
  /\ req.pc \in {"idle", "returned", "threw"}
  /\ \A t \in Tasks : task[t].pc = "idle"
  /\ UNCHANGED <<cacheCall, clock, dirVars, refreshInFlight, promise, intentCache>>
  /\ \E calls \in ModelPlans :
       ExecutePlan(IdleReq, task, [version |-> 1, toolCalls |-> calls], "plan")

\* executePlan returns its list, line 60
PlanReturn ==
  /\ req.pc = "exec_ok" /\ req.tier = "plan"
  /\ UNCHANGED <<cacheCall, clock, dirVars, refreshInFlight, promise, task, intentCache>>
  /\ req' = [req EXCEPT !.pc = "returned"]

\* executePlan is left by the error of an await; its list is lost.
PlanThrow ==
  /\ req.pc = "exec_err" /\ req.tier = "plan"
  /\ UNCHANGED <<cacheCall, clock, dirVars, refreshInFlight, promise, task, intentCache>>
  /\ req' = [req EXCEPT !.pc = "threw", !.results = <<>>]

PlanNext ==
  \/ Tick
  \/ CallExecutePlan
  \/ ExecCallDone
  \/ ExecReadsDone
  \/ PlanReturn
  \/ PlanThrow
  \/ \E t \in Tasks : RefreshFinally(t)
  \/ \E t \in Tasks : RefreshJoined(t)
  \/ \E t \in Tasks : GetStateStart(t)
  \/ \E t \in Tasks : GetStateCheck1(t)
  \/ \E t \in Tasks : GetStateCheck2(t)
  \/ \E t \in Tasks : CallServiceStart(t)
  \/ \E t \in Tasks : CallServiceCheck1(t)
  \/ \E t \in Tasks : CallServiceCheck2(t)
  \/ \E p \in PromiseIds : HubBulkRespond(p)
  \/ \E t \in Tasks : HubPointRespond(t)
  \/ \E t \in Tasks : HubControlRespond(t)

SpecPlan == Init /\ [][PlanNext]_vars

----------------------------------------------------------------------------
(* The IntentCache on its own: a caller that gets, sets and deletes keys   *)
(* of a cache of LruMax entries while the clock advances.                  *)

KeyNames == <<"k1", "k2", "k3", "k4", "k5">>

\* One key more than the cache holds.
CacheKeys == {KeyNames[i] : i \in 1..(LruMax + 1)}

\* The ttlMs a set is given: 0, or none (the default TTL applies).
CacheTtls == {0, IntentCacheTtlMs}

\* The plan the caller stores.
StoredPlan == [version |-> 1, toolCalls |-> <<GetStateTool("sensor.pool_temp")>>]

KeysOf(map) == {map[i].key : i \in DOMAIN map}

\* The order of last access after a call on key: key is the latest when the
\* call accessed its entry, and keys no longer stored are forgotten.
Touch(order, key, accessed, stored) ==
  SelectSeq(IF accessed THEN Append(SelectSeq(order, LAMBDA k : k # key), key)
            ELSE order,
            LAMBDA k : k \in stored)

\* The keys stored when a call is made, by the time their entry was created.
Created == SelectSeq(cacheCall.created, LAMBDA k : k \in KeysOf(intentCache))

\* intentCache.get(key)
CacheCallGet(key) ==
  /\ UNCHANGED <<clock, dirVars, refreshInFlight, promise, task, req>>
  /\ LET got == CacheGet(intentCache, key, clock) IN
     /\ intentCache' = got.map
     /\ cacheCall' = [op |-> "get", key |-> key, ttl |-> 0, value |-> got.value,
                      evicted |-> {},
                      order |-> Touch(cacheCall.order, key, got.value # NoPlan,
                                      KeysOf(got.map)),
                      created |-> Created]

\* intentCache.set(key, plan, { ttlMs })
CacheCallSet(key, ttlMs) ==
  /\ UNCHANGED <<clock, dirVars, refreshInFlight, promise, task, req>>
  /\ LET map == CacheSetWith(intentCache, key, StoredPlan, clock, ttlMs, LruMax) IN
     /\ intentCache' = map
     /\ cacheCall' = [op |-> "set", key |-> key, ttl |-> ttlMs, value |-> NoPlan,
                      evicted |-> (KeysOf(intentCache) \cup {key}) \ KeysOf(map),
                      order |-> Touch(cacheCall.order, key, TRUE, KeysOf(map)),
                      created |-> IF HasKey(intentCache, key) THEN Created
                                  ELSE Append(Created, key)]

\* intentCache.delete(key)
CacheCallDelete(key) ==
  /\ UNCHANGED <<clock, dirVars, refreshInFlight, promise, task, req>>
  /\ intentCache' = CacheDelete(intentCache, key)
  /\ cacheCall' = [op |-> "delete", key |-> key, ttl |-> 0, value |-> NoPlan,
                   evicted |-> {},
                   order |-> Touch(cacheCall.order, key, FALSE,
                                   KeysOf(CacheDelete(intentCache, key))),
                   created |-> Created]

CacheNext ==
  \/ Tick
  \/ \E key \in CacheKeys : CacheCallGet(key)
  \/ \E key \in CacheKeys, ttlMs \in CacheTtls : CacheCallSet(key, ttlMs)
  \/ \E key \in CacheKeys : CacheCallDelete(key)

SpecCache == Init /\ [][CacheNext]_vars

----------------------------------------------------------------------------
(* The plan builder and the renderer on their own: buildPlanFromToolUses   *)
(* on lists of tool uses, renderResponseFromToolResults on lists of tool   *)
(* results under a snapshot of the directory.                              *)

\* The sequences over S of length n at most.
SeqsUpTo(S, n) == UNION {[1..k -> S] : k \in 0..n}

\* Tool uses of every shape isCacheableToolCall tells apart.
SampleToolCalls ==
  << CallServiceTool("switch", "turn_on", "switch.pool_pump"),
     CallServiceTool("switch", "toggle", "switch.pool_pump"),
     CallServiceTool("light", "turn_off", NoId),
     GetStateTool("sensor.pool_temp"),
     GetStateTool(NoId),
     FindTool("switch", "pool"),
     UnknownTool,
     NamelessTool,
     InputlessTool >>

\* A pair { name, input, result } of executePlan's list.
ResultOf(call, result) == [name |-> call.name, input |-> call, result |-> result]

\* Tool results of every shape renderResponseFromToolResults tells apart.
SampleResults ==
  << ResultOf(CallServiceTool("switch", "turn_on", "switch.pool_pump"), "success"),
     ResultOf(CallServiceTool("light", "turn_off", "light.lamp"), "success"),
     ResultOf(CallServiceTool("switch", "toggle", "switch.pool_pump"), "success"),
     ResultOf(CallServiceTool("light", "turn_on", NoId), "success"),
     ResultOf(GetStateTool("sensor.pool_temp"), "20"),
     ResultOf(GetStateTool("switch.pool_pump"), "off"),
     ResultOf(FindTool("switch", "pool"), <<>>) >>

\* The snapshots the renderer's summary lookup can find: the empty one of
\* the start, and the inventories that index.
Snapshots == {<<>>} \cup {inv \in HubInventories : ~IndexThrows(inv)}

InitPure ==
  /\ clock = StartClock
  /\ refreshInFlight = Null
  /\ promise = [p \in PromiseIds |-> "free"]
  /\ task = [t \in Tasks |-> IdleTask]
  /\ intentCache = <<>>
  /\ cacheCall = NoCall
  /\ \/ /\ lastStatesRefreshAt = 0
        /\ statesByEntityId = << >>
        /\ entitiesByDomain = << >>
        /\ \E u \in SeqsUpTo(DOMAIN SampleToolCalls, MaxUses) :
             req = [IdleReq EXCEPT !.pc = "build",
                                   !.toolUsesSeen = [i \in DOMAIN u |-> SampleToolCalls[u[i]]]]
     \/ /\ \E inv \in Snapshots :
             /\ lastStatesRefreshAt = IF inv = <<>> THEN 0 ELSE StartClock
             /\ statesByEntityId = IndexById(inv)
             /\ entitiesByDomain = IndexByDomain(inv)
        /\ \E rs \in SeqsUpTo(DOMAIN SampleResults, MaxResults) :
             req = [IdleReq EXCEPT !.pc = "render",
                                   !.results = [i \in DOMAIN rs |-> SampleResults[rs[i]]]]

\* const plan = buildPlanFromToolUses(toolUsesSeen), index.js:329
BuildPlan ==
  /\ req.pc = "build"
  /\ UNCHANGED <<cacheCall, clock, dirVars, refreshInFlight, promise, task, intentCache>>
  /\ req' = [req EXCEPT !.pc = "built", !.plan = buildPlanFromToolUses(req.toolUsesSeen)]

\* const response = renderResponseFromToolResults({ ha, toolResults }),
\* index.js:72 and 85
Render ==
  /\ req.pc = "render"
  /\ UNCHANGED <<cacheCall, clock, dirVars, refreshInFlight, promise, task, intentCache>>
  /\ req' = [req EXCEPT !.pc = "rendered",
                        !.body = renderResponseFromToolResults(req.results)]

PureNext == BuildPlan \/ Render

SpecPure == InitPure /\ [][PureNext]_vars

----------------------------------------------------------------------------
(* The normalizer on its own: normalizeUtterance on texts made of a few     *)
(* words, and on its own result.                                            *)

\* The longest text, in words.
MaxWords == 3

\* The words of the texts: the verb of the first substitution, its two
\* particles, two filler words (one capitalised, with a comma) and a noun.
NormWords ==
  << <<"S", "w", "i", "t", "c", "h">>,
     <<"o", "n">>,
     <<"o", "f", "f">>,
     <<"t", "h", "e">>,
     <<"P", "l", "e", "a", "s", "e", ",">>,
     <<"p", "u", "m", "p">> >>

\* The words numbered ws, one space between two of them.
RECURSIVE JoinWords(_)
JoinWords(ws) ==
  IF ws = <<>> THEN <<>>
  ELSE IF Len(ws) = 1 THEN NormWords[ws[1]]
  ELSE NormWords[ws[1]] \o <<" ">> \o JoinWords(Tail(ws))

InitNormalize ==
  /\ clock = StartClock
  /\ lastStatesRefreshAt = 0
  /\ statesByEntityId = << >>
  /\ entitiesByDomain = << >>
  /\ refreshInFlight = Null
  /\ promise = [p \in PromiseIds |-> "free"]
  /\ task = [t \in Tasks |-> IdleTask]
  /\ intentCache = <<>>
  /\ cacheCall = NoCall
  /\ \E ws \in SeqsUpTo(DOMAIN NormWords, MaxWords) :
       req = [IdleReq EXCEPT !.pc = "norm", !.text = JoinWords(ws)]

\* const normalized = normalizeUtterance(text), index.js:66
NormalizeOnce ==
  /\ req.pc = "norm"
  /\ UNCHANGED <<cacheCall, clock, dirVars, refreshInFlight, promise, task, intentCache>>
  /\ req' = [req EXCEPT !.pc = "norm1", !.normalized = NormalizeChars(req.text)]

\* normalizeUtterance applied to its own result; the result is kept in body.
NormalizeAgain ==
  /\ req.pc = "norm1"
  /\ UNCHANGED <<cacheCall, clock, dirVars, refreshInFlight, promise, task, intentCache>>
  /\ req' = [req EXCEPT !.pc = "norm2", !.body = NormalizeChars(req.normalized)]

NormalizeNext == NormalizeOnce \/ NormalizeAgain

SpecNormalize == InitNormalize /\ [][NormalizeNext]_vars

----------------------------------------------------------------------------
(* resolveEntityId and findEntities on their own: one call of either on a  *)
(* directory that is fresh, so that ensureStatesFresh is a no-op.           *)

\* The longest inventory, in entities.
MaxEntities == 3

\* The records of the inventories: two switches whose names share two
\* tokens, a light that shares one with them, a light that shares none.
ResolveRecords ==
  { HubRecord("switch.pool_pump", "off"),
    HubRecord("switch.pool_pump", "unavailable"),
    HubRecord("switch.pool_pump", "unknown"),
    HubRecord("switch.pool_pump_2", "off"),
    HubRecord("switch.pool_pump_2", "unavailable"),
    HubRecord("light.pool_light", "on"),
    HubRecord("light.lamp", "on") }

\* The inventories: every entity reported once, in any order.
ResolveInventories ==
  { inv \in SeqsUpTo(ResolveRecords, MaxEntities) :
      \A i, j \in DOMAIN inv : inv[i].entity_id = inv[j].entity_id => i = j }

\* The arguments of the calls: '' stands for a search that is not given,
\* the empty list for categories that are not given.
ResolveSearches == {"pool pump", "pool", "pool pump two", "lamp", ""}
ResolveDomains == {<<"light", "switch">>, <<"switch", "light">>, <<"switch">>, <<>>}
FindDomains == {<<"light">>, <<"switch">>, <<>>}

\* findEntities({ domain, search })
FindCall(domains, search) ==
  [NewCall("findEntities", "fe_start", FALSE, NoId)
     EXCEPT !.arg = [NoArg EXCEPT !.domains = domains, !.search = search]]

InitResolve ==
  /\ clock = StartClock
  /\ lastStatesRefreshAt = StartClock
  /\ refreshInFlight = Null
  /\ promise = [p \in PromiseIds |-> "free"]
  /\ intentCache = <<>>
  /\ req = IdleReq
  /\ cacheCall = NoCall
  /\ \E inv \in ResolveInventories :
       /\ statesByEntityId = IndexById(inv)
       /\ entitiesByDomain = IndexByDomain(inv)
  /\ \E call \in
          {ResolveCall(d, q, m) : d \in ResolveDomains, q \in ResolveSearches,
                                  m \in {ScorePool, ScoreDefault}}
          \cup {FindCall(d, q) : d \in FindDomains, q \in ResolveSearches} :
       task = [t \in Tasks |-> IF t = 1 THEN call ELSE IdleTask]

ResolveNext ==
  \E t \in Tasks : ResolveStart(t) \/ ResolveRank(t) \/ FindStart(t) \/ FindList(t)

SpecResolve == InitResolve /\ [][ResolveNext]_vars

----------------------------------------------------------------------------
(* tryFastPathPlan on its own: one call with a normalized text on a        *)
(* directory that is fresh, so that the resolutions do not fetch.          *)

\* The inventories of the directory: nothing that matches; a pump and a
\* sensor; a pump and a sensor that is unavailable; a pump that is
\* unavailable; a pump and a light of the pool.
FastInventories ==
  { <<HubRecord("light.lamp", "on")>>,
    <<HubRecord("light.lamp", "on"), HubRecord("switch.pool_pump", "off"),
      HubRecord("sensor.pool_temp", "20")>>,
    <<HubRecord("switch.pool_pump", "off"), HubRecord("sensor.pool_temp", "unavailable")>>,
    <<HubRecord("switch.pool_pump", "unavailable"), HubRecord("light.lamp", "on")>>,
    <<HubRecord("switch.pool_pump", "off"), HubRecord("light.pool_light", "on")>> }

InitFast ==
  /\ clock = StartClock
  /\ lastStatesRefreshAt = StartClock
  /\ refreshInFlight = Null
  /\ promise = [p \in PromiseIds |-> "free"]
  /\ task = [t \in Tasks |-> IdleTask]
  /\ intentCache = <<>>
  /\ req = IdleReq
  /\ cacheCall = NoCall
  /\ \E inv \in FastInventories :
       /\ statesByEntityId = IndexById(inv)
       /\ entitiesByDomain = IndexByDomain(inv)

\* await tryFastPathPlan({ ha, normalized })
CallTryFastPathPlan ==
  /\ req.pc \in {"idle", "fp_returned", "fp_threw"}
  /\ UNCHANGED <<cacheCall, clock, dirVars, refreshInFlight, promise, intentCache>>
  /\ \E normalized \in FastTexts \cup {""} :
       TryFastPathPlan([IdleReq EXCEPT !.normalized = normalized], task)

FastNext ==
  \/ CallTryFastPathPlan
  \/ FastPool1Done
  \/ FastPool2Done
  \/ FastTurnDone
  \/ FastSuffixDone
  \/ \E t \in Tasks : ResolveStart(t) \/ ResolveRank(t)

SpecFast == InitFast /\ [][FastNext]_vars

----------------------------------------------------------------------------
(* warmup, called once when the process starts, beside one other caller of *)
(* refreshStates.                                                          *)

WarmupAttempts == 3
WarmupSleepMs == 250

\* The task that runs warmup; the force field of its call holds the
\* client's warmupOnStart option.
WarmupTask == NumTasks

\* ha.warmup().catch(() => {}) at the start of the process.
CallWarmup ==
  /\ task[WarmupTask].pc = "idle"
  /\ UNCHANGED <<voiceVars, clock, dirVars, refreshInFlight, promise>>
  /\ \E warmupOnStart \in BOOLEAN :
       task' = [task EXCEPT ![WarmupTask] =
                  NewCall("warmup", "wu_start", warmupOnStart, NoId)]

\* if (!warmupOnStart) return; and the first pass of the loop up to its
\* await.
WarmupStart ==
  /\ task[WarmupTask].pc = "wu_start"
  /\ IF ~task[WarmupTask].force
     THEN /\ task' = [task EXCEPT ![WarmupTask] = Finish(@, "ok", "warmup", "none")]
          /\ UNCHANGED <<voiceVars, clock, dirVars, refreshInFlight, promise>>
     ELSE RefreshStates(WarmupTask, TRUE, "wu_ok")

\* return; after the await that was fulfilled.
WarmupOk ==
  /\ task[WarmupTask].pc = "wu_ok"
  /\ UNCHANGED <<voiceVars, clock, dirVars, refreshInFlight, promise>>
  /\ task' = [task EXCEPT ![WarmupTask] = Finish(@, "ok", "warmup", "none")]

\* The catch written without the test of the last attempt: the error of the
\* third attempt leaves warmup.
WarmupCatch_Rethrows ==
  /\ task[WarmupTask].pc = "wu_catch"
  /\ UNCHANGED <<voiceVars, clock, dirVars, refreshInFlight, promise>>
  /\ task' = [task EXCEPT ![WarmupTask] =
                IF @.nForced = WarmupAttempts
                THEN Finish(@, "err", "warmup", "none")
                ELSE [@ EXCEPT !.pc = "wu_sleep",
                               !.val = WarmupSleepMs * task[WarmupTask].nForced]]

\* catch (err) { if (attempt === 2) return; await sleep(250 * (attempt + 1)) }
\* nForced counts the calls of refreshStates made so far, attempt + 1.
WarmupCatch ==
  /\ task[WarmupTask].pc = "wu_catch"
  /\ UNCHANGED <<voiceVars, clock, dirVars, refreshInFlight, promise>>
  /\ task' = [task EXCEPT ![WarmupTask] =
                IF @.nForced = WarmupAttempts
                THEN Finish(@, "ok", "warmup", "none")
                ELSE [@ EXCEPT !.pc = "wu_sleep",
                               !.val = WarmupSleepMs * task[WarmupTask].nForced]]

\* The timer of sleep fires and the next pass of the loop runs up to its
\* await.
WarmupWake ==
  /\ task[WarmupTask].pc = "wu_sleep"
  /\ IoEnabled
  /\ RefreshStates(WarmupTask, TRUE, "wu_ok")

WarmupSteps ==
  \/ CallWarmup
  \/ WarmupStart
  \/ WarmupOk
  \/ WarmupCatch
  \/ \E t \in Tasks : RefreshStart(t)
  \/ \E t \in Tasks : RefreshFinally(t)
  \/ \E t \in Tasks : RefreshJoined(t)

\* A request that calls refreshStates comes in as an event of the loop, when
\* no continuation is left to run.
WarmupNext ==
  \/ Tick
  \/ IoEnabled /\ CallRefreshStates(WarmupTask - 1)
  \/ WarmupSteps
  \/ WarmupWake
  \/ \E p \in PromiseIds : HubBulkRespond(p)

\* Every continuation that is runnable runs; the hub's answer, or the
\* timeout of the fetch, and the timer of sleep are delivered however often
\* other calls come in between.
SpecWarmup ==
  /\ Init /\ [][WarmupNext]_vars
  /\ WF_vars(CallWarmup) /\ WF_vars(WarmupStart)
  /\ WF_vars(WarmupOk) /\ WF_vars(WarmupCatch)
  /\ \A t \in Tasks : WF_vars(RefreshStart(t) \/ RefreshFinally(t) \/ RefreshJoined(t))
  /\ SF_vars(WarmupWake)
  /\ SF_vars(\E p \in PromiseIds : HubBulkRespond(p))

----------------------------------------------------------------------------
(* One utterance said again and again while the hub stays as it is: the    *)
(* directory is fresh, no time passes, and no bulk fetch is made.          *)

ReplayText == "Turn on the pool pump"

\* A pump the fast path resolves, and a pump it does not resolve, so that
\* the request goes to the model.
ReplayInventories ==
  { <<HubRecord("switch.pool_pump", "off"), HubRecord("sensor.pool_temp", "20")>>,
    <<HubRecord("switch.pool_pump", "unavailable"), HubRecord("sensor.pool_temp", "20")>> }

InitReplay ==
  /\ clock = StartClock
  /\ lastStatesRefreshAt = StartClock
  /\ refreshInFlight = Null
  /\ promise = [p \in PromiseIds |-> "free"]
  /\ task = [t \in Tasks |-> IdleTask]
  /\ intentCache = <<>>
  /\ req = IdleReq
  /\ cacheCall = NoCall
  /\ \E inv \in ReplayInventories :
       /\ statesByEntityId = IndexById(inv)
       /\ entitiesByDomain = IndexByDomain(inv)

\* The same request arrives again.  prior: how the request before it was
\* answered.
ReceiveAgain ==
  /\ req.pc \in {"idle", "responded"}
  /\ \A t \in Tasks : task[t].pc = "idle"
  /\ UNCHANGED <<cacheCall, clock, dirVars, refreshInFlight, promise>>
  /\ VoiceHandler([prior |-> [tier |-> req.tier, status |-> req.status,
                              body |-> req.body]] @@ IdleReq,
                  ReplayText)

ReplayNext ==
  \/ ReceiveAgain
  \/ ExecCallDone
  \/ ExecReadsDone
  \/ CacheHitReturn
  \/ CacheHitCatch
  \/ FastReturn
  \/ FastCatch
  \/ FastTurnDone
  \/ ModelRespond
  \/ LlmToolDone
  \/ \E t \in Tasks : GetStateStart(t)
  \/ \E t \in Tasks : GetStateCheck1(t)
  \/ \E t \in Tasks : CallServiceStart(t)
  \/ \E t \in Tasks : CallServiceCheck1(t)
  \/ \E t \in Tasks : ResolveStart(t)
  \/ \E t \in Tasks : ResolveRank(t)
  \/ \E t \in Tasks : FindStart(t)
  \/ \E t \in Tasks : FindList(t)
  \/ \E t \in Tasks : HubControlRespond(t)

SpecReplay == InitReplay /\ [][ReplayNext]_vars

----------------------------------------------------------------------------
(* Requests with one utterance in flight together: each is the handler's   *)
(* run from one await to the next, and what the hub and the model answer   *)
(* to a request is open.  req holds one record for each of them, cacheCall *)
(* the last write of the cache.                                            *)

NumRequests == 2
Requests == 1..NumRequests

RaceText == "Turn on the pool pump"
RaceKey == normalizeUtterance[RaceText]

\* The plans processVoiceCommand can build for the utterance; NoPlan when
\* the tool uses are not cacheable.
RaceLlmPlans == {ReadPlan("switch.pool_pump"), ReadPlan("sensor.pool_temp"), NoPlan}

\* The plan tryFastPathPlan returns for it, or null.
RaceFastPlans == {ServicePlan("switch.pool_pump", "on"), NoPlan}

\* The cache is empty, or holds the plan of another utterance.
InitRace ==
  /\ clock = StartClock
  /\ lastStatesRefreshAt = 0
  /\ statesByEntityId = << >>
  /\ entitiesByDomain = << >>
  /\ refreshInFlight = Null
  /\ promise = [p \in PromiseIds |-> "free"]
  /\ task = [t \in Tasks |-> IdleTask]
  /\ intentCache \in {<<>>, CacheSet(<<>>, "pool temp on", ReadPlan("sensor.pool_temp"),
                                     StartClock)}
  /\ req = [i \in Requests |-> IdleReq]
  /\ cacheCall = NoCall

RaceWrite(key, plan) == [NoCall EXCEPT !.op = "set", !.key = key, !.value = plan]

\* index.js:58-81 up to the first await: the request is taken up, the cache
\* is asked for the plan.
RaceReceive(i) ==
  /\ req[i].pc \in {"idle", "responded"}
  /\ UNCHANGED <<cacheCall, clock, dirVars, refreshInFlight, promise, task>>
  /\ LET got == CacheGet(intentCache, RaceKey, clock)
         r == [IdleReq EXCEPT !.text = RaceText, !.normalized = RaceKey]
     IN /\ intentCache' = got.map
        /\ req' = [req EXCEPT ![i] =
                     IF got.value # NoPlan
                     THEN [r EXCEPT !.pc = "exec", !.tier = "cache", !.plan = got.value]
                     ELSE [r EXCEPT !.pc = "fast_wait", !.tier = "fast"]]

\* index.js:72-74: the cached plan ran.
RaceCacheHitReturn(i) ==
  /\ req[i].pc = "exec" /\ req[i].tier = "cache"
  /\ UNCHANGED <<cacheCall, clock, dirVars, refreshInFlight, promise, task, intentCache>>
  /\ req' = [req EXCEPT ![i] = [@ EXCEPT !.pc = "responded", !.status = 200]]

\* index.js:75-81: the cached plan failed, up to the await of tryFastPathPlan.
RaceCacheHitCatch(i) ==
  /\ req[i].pc = "exec" /\ req[i].tier = "cache"
  /\ UNCHANGED <<cacheCall, clock, dirVars, refreshInFlight, promise, task>>
  /\ intentCache' = CacheDelete(intentCache, req[i].normalized)
  /\ req' = [req EXCEPT ![i] = [@ EXCEPT !.pc = "fast_wait", !.tier = "fast",
                                          !.plan = NoPlan, !.nDel = @ + 1]]

\* index.js:82-84 and 95: tryFastPathPlan has returned a plan, which is
\* executed, or null, and the model is called.
RaceFastPlan(i) ==
  /\ req[i].pc = "fast_wait"
  /\ UNCHANGED <<cacheCall, clock, dirVars, refreshInFlight, promise, task, intentCache>>
  /\ \E plan \in RaceFastPlans :
       req' = [req EXCEPT ![i] =
                 IF plan # NoPlan THEN [@ EXCEPT !.pc = "exec", !.plan = plan]
                 ELSE [@ EXCEPT !.pc = "llm_wait", !.tier = "llm"]]

\* index.js:85-88: the fast plan ran and is stored.
RaceFastReturn(i) ==
  /\ req[i].pc = "exec" /\ req[i].tier = "fast"
  /\ UNCHANGED <<clock, dirVars, refreshInFlight, promise, task>>
  /\ intentCache' = CacheSet(intentCache, req[i].normalized, req[i].plan, clock)
  /\ cacheCall' = RaceWrite(req[i].normalized, req[i].plan)
  /\ req' = [req EXCEPT ![i] = [@ EXCEPT !.pc = "responded", !.status = 200,
                                          !.nSet = @ + 1]]

\* index.js:89-95: the fast plan failed, the model is called.
RaceFastCatch(i) ==
  /\ req[i].pc = "exec" /\ req[i].tier = "fast"
  /\ UNCHANGED <<cacheCall, clock, dirVars, refreshInFlight, promise, task, intentCache>>
  /\ req' = [req EXCEPT ![i] = [@ EXCEPT !.pc = "llm_wait", !.tier = "llm",
                                          !.plan = NoPlan]]

\* index.js:326-334 and 95-98: the model's last answer; the plan built of
\* the tool uses is stored when there is one.
RaceModelRespond(i) ==
  /\ req[i].pc = "llm_wait"
  /\ UNCHANGED <<clock, dirVars, refreshInFlight, promise, task>>
  /\ \E plan \in RaceLlmPlans :
       LET store == plan # NoPlan /\ req[i].normalized # "" IN
       /\ intentCache' = IF store
                         THEN CacheSet(intentCache, req[i].normalized, plan, clock)
                         ELSE intentCache
       /\ cacheCall' = IF store THEN RaceWrite(req[i].normalized, plan) ELSE cacheCall
       /\ req' = [req EXCEPT ![i] = [@ EXCEPT !.pc = "responded", !.status = 200,
                                               !.plan = plan,
                                               !.nSet = @ + (IF store THEN 1 ELSE 0)]]

\* index.js:100-105: the model call failed.
RaceHandlerCatch(i) ==
  /\ req[i].pc = "llm_wait"
  /\ UNCHANGED <<cacheCall, clock, dirVars, refreshInFlight, promise, task, intentCache>>
  /\ req' = [req EXCEPT ![i] = [@ EXCEPT !.pc = "responded", !.status = 500]]

RaceNext ==
  \/ Tick
  \/ \E i \in Requests : RaceReceive(i)
  \/ \E i \in Requests : RaceCacheHitReturn(i)
  \/ \E i \in Requests : RaceCacheHitCatch(i)
  \/ \E i \in Requests : RaceFastPlan(i)
  \/ \E i \in Requests : RaceFastReturn(i)
  \/ \E i \in Requests : RaceFastCatch(i)
  \/ \E i \in Requests : RaceModelRespond(i)
  \/ \E i \in Requests : RaceHandlerCatch(i)

SpecRace == InitRace /\ [][RaceNext]_vars

----------------------------------------------------------------------------
(* processVoiceCommand on its own, on a directory that is fresh.           *)

LoopText == "Turn on the pool pump"

InitLoop ==
  /\ clock = StartClock
  /\ lastStatesRefreshAt = StartClock
  /\ refreshInFlight = Null
  /\ promise = [p \in PromiseIds |-> "free"]
  /\ task = [t \in Tasks |-> IdleTask]
  /\ intentCache = <<>>
  /\ req = IdleReq
  /\ cacheCall = NoCall
  /\ LET inv == <<HubRecord("switch.pool_pump", "off"),
                  HubRecord("sensor.pool_temp", "20")>>
     IN /\ statesByEntityId = IndexById(inv)
        /\ entitiesByDomain = IndexByDomain(inv)

\* await processVoiceCommand({ userText: text, normalized }), with
\* messages = [{ role: 'user', content: userText }] of line 273.
CallProcessVoiceCommand ==
  /\ req.pc \in {"idle", "responded"}
  /\ \A t \in Tasks : task[t].pc = "idle"
  /\ UNCHANGED <<cacheCall, clock, dirVars, refreshInFlight, promise, intentCache>>
  /\ ProcessVoiceCommand(
       [IdleReq EXCEPT !.text = LoopText, !.normalized = normalizeUtterance[LoopText],
                       !.messages = <<[role |-> "user", content |-> <<LoopText>>]>>],
       task)

\* The responses with stop_reason tool_use of a model that asks for tools:
\* no tool_use block at all; a tool that is not known and a service call; a
\* read and a discovery.
LoopToolUses ==
  { <<>>,
    <<UnknownTool, CallServiceTool("switch", "turn_on", "switch.pool_pump")>>,
    <<GetStateTool("sensor.pool_temp"), FindTool("switch", "pool")>> }

\* The text of the first text block of a final response: absent, empty, or
\* a sentence.
LoopTexts == {Undefined, "", ModelText}

LoopModelRespond == ModelResponds(MaxRounds + 1, LoopToolUses, LoopTexts)

LoopNext ==
  \/ CallProcessVoiceCommand
  \/ LoopModelRespond
  \/ LlmToolDone
  \/ \E t \in Tasks : GetStateStart(t)
  \/ \E t \in Tasks : GetStateCheck1(t)
  \/ \E t \in Tasks : CallServiceStart(t)
  \/ \E t \in Tasks : CallServiceCheck1(t)
  \/ \E t \in Tasks : FindStart(t)
  \/ \E t \in Tasks : FindList(t)
  \/ \E t \in Tasks : HubControlRespond(t)

SpecLoop == InitLoop /\ [][LoopNext]_vars

\* A model that goes on asking for tools: the rounds it is followed for.
CeilingRounds == 9

CeilingToolUses == { <<>>, <<UnknownTool>> }

CeilingModelRespond == ModelResponds(CeilingRounds, CeilingToolUses, {ModelText})

CeilingNext ==
  \/ CallProcessVoiceCommand
  \/ CeilingModelRespond
  \/ LlmToolDone

SpecCeiling == InitLoop /\ [][CeilingNext]_vars

----------------------------------------------------------------------------
(* One request through the tiers, with the service calls the hub accepted *)

TiersText == "Turn on the pool pump"

\* The model switches the pump on and reads the pool's temperature.
TiersToolUses ==
  { <<CallServiceTool("switch", "turn_on", "switch.pool_pump"),
      GetStateTool("sensor.pool_temp")>> }

TiersModelRespond == ModelResponds(MaxRounds, TiersToolUses, {ModelText})

\* The request arrives, index.js:58-81; the calls the hub accepts for it are
\* followed.
TiersReceive ==
  /\ req.pc \in {"idle", "responded"}
  /\ \A t \in Tasks : task[t].pc = "idle"
  /\ UNCHANGED <<cacheCall, clock, dirVars, refreshInFlight, promise>>
  /\ VoiceHandler([posted |-> <<>>] @@ IdleReq, TiersText)

TiersNext ==
  \/ Tick
  \/ TiersReceive
  \/ ExecCallDone
  \/ ExecReadsDone
  \/ CacheHitReturn
  \/ CacheHitCatch
  \/ FastReturn
  \/ FastCatch
  \/ FastTurnDone
  \/ TiersModelRespond
  \/ LlmToolDone
  \/ \E t \in Tasks : RefreshFinally(t)
  \/ \E t \in Tasks : GetStateStart(t)
  \/ \E t \in Tasks : GetStateCheck1(t)
  \/ \E t \in Tasks : GetStateCheck2(t)
  \/ \E t \in Tasks : CallServiceStart(t)
  \/ \E t \in Tasks : CallServiceCheck1(t)
  \/ \E t \in Tasks : CallServiceCheck2(t)
  \/ \E t \in Tasks : ResolveStart(t)
  \/ \E t \in Tasks : ResolveRank(t)
  \/ \E p \in PromiseIds : HubBulkRespond(p)
  \/ \E t \in Tasks : HubPointRespond(t)
  \/ \E t \in Tasks : HubControlRespond(t)

SpecTiers == Init /\ [][TiersNext]_vars

----------------------------------------------------------------------------
(* Properties of the Entity Directory *)

PendingFetches == {p \in PromiseIds : promise[p] = "pending"}

Moves(t) == task'[t] # task[t]

\* Task t is at a line that calls refreshStates.
CallsRefresh(t) ==
  \/ task[t].pc \in {"rs_start", "gs_start"}
  \/ task[t].pc = "cs_start" /\ task[t].id # NoId
  \/ task[t].pc \in {"gs_check1", "cs_check1"} /\ ~Known(task[t].id)

\* The force argument of that call.
CallForce(t) ==
  IF task[t].pc = "rs_start" THEN task[t].force
  ELSE task[t].pc \in {"gs_check1", "cs_check1"}

WithinTtl == clock - lastStatesRefreshAt <= StatesTtlMs

\* The call needs a fetch: it is forced, or the snapshot is stale.
NeedsFetch(t) == CallsRefresh(t) /\ (CallForce(t) \/ ~WithinTtl)

FetchFails == \E p \in PromiseIds : promise[p] = "pending" /\ promise'[p] = "rejected"
FetchSucceeds == \E p \in PromiseIds : promise[p] = "pending" /\ promise'[p] = "fulfilled"
FetchIssued == \E p \in PromiseIds : promise[p] # "pending" /\ promise'[p] = "pending"

\* The call of task t settles in this step with the outcome of promise p.
SettlesWith(t, p) ==
  IF promise[p] = "fulfilled"
  THEN task'[t].pc = task[t].ret
  ELSE task'[t].pc = "done" /\ task'[t].res = "err" /\ task'[t].src = "refresh"

\* C1: at most one bulk inventory fetch is outstanding at any moment; a
\* refreshStates call that needs a fetch while the guard holds a fetch issues
\* no hub fetch, waits for that fetch and settles with its outcome; a fetch
\* is issued only by a call that found the guard empty.
C1_SingleFlight ==
  [][ /\ Cardinality(PendingFetches') <= 1
      /\ FetchIssued => refreshInFlight = Null
      /\ \A t \in Tasks :
           (Moves(t) /\ NeedsFetch(t) /\ refreshInFlight # Null) =>
              /\ ~FetchIssued
              /\ task'[t].pc = "rs_join"
              /\ task'[t].wait = refreshInFlight
      /\ \A t \in Tasks :
           (Moves(t) /\ task[t].pc = "rs_join") => SettlesWith(t, task[t].wait)
    ]_vars

\* C1 witness: one fetch is pending and two forced refreshes wait for it.
C1_Witness ==
  \E t1, t2, t3 \in Tasks :
    /\ t2 # t3
    /\ task[t1].pc = "rs_await" /\ promise[task[t1].wait] = "pending"
    /\ \A t \in {t2, t3} :
         /\ task[t].pc = "rs_join" /\ task[t].force
         /\ task[t].wait = task[t1].wait
    /\ Cardinality(PendingFetches) = 1

\* C2: a failed fetch leaves both maps and the freshness timestamp as they
\* were, and every call that awaits it (the starter and the joined ones) ends
\* with the error, without another fetch.
C2_FailureKeepsSnapshot ==
  [][ /\ FetchFails =>
           UNCHANGED <<statesByEntityId, entitiesByDomain, lastStatesRefreshAt>>
      /\ \A t \in Tasks :
           (Moves(t) /\ task[t].pc \in {"rs_await", "rs_join"}
              /\ promise[task[t].wait] = "rejected") =>
              /\ task'[t].pc = "done" /\ task'[t].res = "err"
              /\ ~FetchIssued
    ]_vars

IdsById == DOMAIN statesByEntityId
IdsByDomain ==
  UNION { {entitiesByDomain[d][i].entity_id : i \in DOMAIN entitiesByDomain[d]} :
          d \in DOMAIN entitiesByDomain }

\* C3: in every state the id map and the category map hold the same entity
\* ids with the same states, those of one hub fetch.
C3_MapsAgree ==
  /\ IdsById = IdsByDomain
  /\ \A d \in DOMAIN entitiesByDomain : \A i \in DOMAIN entitiesByDomain[d] :
       LET e == entitiesByDomain[d][i] IN
       e.entity_id \in IdsById /\ statesByEntityId[e.entity_id] = e.state

\* C4: the guard changes from a promise only when that promise has settled;
\* a settled promise stays in the guard only while its starter's finally is
\* still to run; when a call ends with a failed fetch the guard no longer
\* holds that fetch (the starter leaves it empty); and a call that needs a
\* fetch and finds the guard empty issues a new hub fetch.
C4_GuardRelease ==
  [][ /\ (refreshInFlight # Null /\ refreshInFlight' # refreshInFlight) =>
           Settled(refreshInFlight)
      /\ \A p \in PromiseIds :
           (refreshInFlight' = p /\ promise'[p] \in {"fulfilled", "rejected"}) =>
              \E t \in Tasks : task'[t].pc = "rs_await" /\ task'[t].wait = p
      /\ \A t \in Tasks :
           (Moves(t) /\ task[t].pc \in {"rs_await", "rs_join"}
              /\ promise[task[t].wait] = "rejected") =>
              /\ refreshInFlight' # task[t].wait
              /\ task[t].pc = "rs_await" => refreshInFlight' = Null
      /\ \A t \in Tasks :
           (Moves(t) /\ NeedsFetch(t) /\ refreshInFlight = Null) =>
              /\ FetchIssued
              /\ refreshInFlight' # Null /\ promise'[refreshInFlight'] = "pending"
    ]_vars

\* C4 witness: a refresh has ended with a failed fetch, the guard is empty,
\* and a later call has issued a new fetch.
C4_Witness ==
  \E t1, t2 \in Tasks :
    /\ task[t1].pc = "done" /\ task[t1].res = "err" /\ task[t1].src = "refresh"
    /\ task[t2].pc = "rs_await" /\ refreshInFlight = task[t2].wait
    /\ promise[task[t2].wait] = "pending"

\* C5: a non-forced refresh within the TTL window of the last successful
\* fetch issues no fetch and leaves the snapshot, the timestamp and the guard
\* as they are; the timestamp is set only when a fetch succeeds, to the time
\* of its completion, and a failed fetch leaves it.
C5_FreshNoOp ==
  [][ /\ \A t \in Tasks :
           (Moves(t) /\ CallsRefresh(t) /\ ~CallForce(t) /\ WithinTtl) =>
              /\ UNCHANGED <<dirVars, refreshInFlight, promise>>
              /\ task'[t].how = "noop"
              /\ task'[t].pc \notin {"rs_await", "rs_join"}
      /\ lastStatesRefreshAt' # lastStatesRefreshAt => FetchSucceeds
      /\ FetchSucceeds => lastStatesRefreshAt' = clock
      /\ FetchFails => lastStatesRefreshAt' = lastStatesRefreshAt
    ]_vars

\* C5 witness: a non-forced refresh returned without a fetch, some time
\* after a successful fetch and still within its window.
C5_Witness ==
  \E t \in Tasks :
    /\ task[t].op = "refreshStates" /\ ~task[t].force
    /\ task[t].pc = "rs_ret" /\ task[t].how = "noop"
    /\ lastStatesRefreshAt > 0
    /\ clock > lastStatesRefreshAt
    /\ clock - lastStatesRefreshAt <= StatesTtlMs

\* A step of task t inside the operation op.
StepIn(t, op) == Moves(t) /\ task[t].op = op /\ task[t].pc \notin {"idle", "done"}

ReturnsCached(t) ==
  /\ task'[t].pc = "done" /\ task'[t].res = "ok" /\ task'[t].src = "cache"
  /\ task'[t].val = statesByEntityId[task[t].id]
  /\ task'[t].nPoint = 0
  /\ ~FetchIssued

ForcesRefresh(t, retpc) ==
  /\ task'[t].nForced = 1
  /\ task'[t].pc \in {"rs_await", "rs_join"}
  /\ task'[t].ret = retpc
  /\ task'[t].nPoint = 0 /\ task'[t].nPost = 0

\* C6: getEntityState returns the snapshot entry when the id is present
\* after ensureFresh, without a forced refresh or a point lookup; otherwise
\* it makes one forced refresh and rechecks; only when the id is still absent
\* does it issue one point lookup, whose answer is its result.  The point
\* lookup is issued only for an id absent from the snapshot.
C6_GetStateEscalation ==
  [][ \A t \in Tasks : StepIn(t, "getEntityState") =>
        /\ (task[t].pc = "gs_check1" /\ Known(task[t].id)) =>
              ReturnsCached(t) /\ task'[t].nForced = 0
        /\ (task[t].pc = "gs_check1" /\ ~Known(task[t].id)) =>
              ForcesRefresh(t, "gs_check2")
        /\ (task[t].pc = "gs_check2" /\ Known(task[t].id)) =>
              ReturnsCached(t) /\ task'[t].nForced = 1
        /\ (task[t].pc = "gs_check2" /\ ~Known(task[t].id)) =>
              task'[t].pc = "gs_point"
        /\ (task'[t].pc = "gs_point") =>
              /\ task[t].pc = "gs_check2" /\ ~Known(task[t].id)
              /\ task'[t].nPoint = 1 /\ task'[t].nForced = 1
        /\ (task[t].pc = "gs_point") =>
              /\ task'[t].pc = "done"
              /\ task'[t].nPoint = 1 /\ task'[t].nForced = 1
              /\ \/ task'[t].res = "ok" /\ task'[t].src = "point"
                 \/ task'[t].res = "err" /\ task'[t].src \in HubPointFailures
        /\ task'[t].nForced <= 1 /\ task'[t].nPoint <= 1
    ]_vars

\* C6 witness: a getEntityState that went through the forced refresh and
\* the point lookup and returned the hub's answer.
C6_Witness ==
  \E t \in Tasks :
    /\ task[t].op = "getEntityState" /\ task[t].pc = "done"
    /\ task[t].res = "ok" /\ task[t].src = "point"
    /\ task[t].nForced = 1 /\ task[t].nPoint = 1

\* C7: callService with a target entity sends the control request only for
\* an entity that is in the snapshot; when the entity is absent after one
\* forced refresh it fails with not-found and sends nothing; when the entity
\* is known, before or after the forced refresh, it sends exactly one
\* control request.
C7_CallServiceGuard ==
  [][ \A t \in Tasks : (StepIn(t, "callService") /\ task[t].id # NoId) =>
        /\ (task'[t].pc = "cs_post") =>
              Known(task[t].id) /\ task'[t].nPost = 1
        /\ (task[t].pc \in {"cs_check1", "cs_check2"} /\ Known(task[t].id)) =>
              task'[t].pc = "cs_post"
        /\ (task[t].pc = "cs_check1" /\ ~Known(task[t].id)) =>
              ForcesRefresh(t, "cs_check2")
        /\ (task[t].pc = "cs_check2" /\ ~Known(task[t].id)) =>
              /\ task'[t].pc = "done" /\ task'[t].res = "err"
              /\ task'[t].src = "not_found"
              /\ task'[t].nPost = 0 /\ task'[t].nForced = 1
        /\ (task[t].pc = "cs_post") =>
              task'[t].pc = "done" /\ task'[t].nPost = 1
        /\ (task'[t].pc = "done" /\ task'[t].res = "ok") => task'[t].nPost = 1
        /\ task'[t].nForced <= 1 /\ task'[t].nPost <= 1
    ]_vars

\* C7 witness: a callService on an entity that a successful forced refresh
\* did not bring has failed with not-found, nothing sent.
C7_Witness ==
  \E t \in Tasks :
    /\ task[t].op = "callService" /\ task[t].id # NoId
    /\ task[t].pc = "done" /\ task[t].res = "err" /\ task[t].src = "not_found"
    /\ task[t].nForced = 1 /\ task[t].nPost = 0
    /\ lastStatesRefreshAt > 0

----------------------------------------------------------------------------
(* Properties of the POST /voice handler *)

\* intentCache holds an entry for key that a get at this instant returns.
LiveEntry(key) ==
  HasKey(intentCache, key) /\ ~(clock > EntryOf(intentCache, key).expiresAt)

\* The handler takes up a request with a text.
TakesUp == req.pc \in {"idle", "responded"} /\ req'.pc \notin {"idle", "responded"}

\* The handler's continuation runs.
HandlerStep == req' # req

\* A call the handler awaits in executePlan has failed.
AwaitedFailed ==
  \E i \in DOMAIN req.waits :
    task[req.waits[i]].pc = "done" /\ task[req.waits[i]].res = "err"

\* C8: a request whose normalized utterance has a live plan in the Plan
\* Cache executes that plan, and when the execution succeeds it answers with
\* the rendered confirmation; neither the fast-path matcher nor the LLM has
\* been invoked for the request, and the cache still holds the plan with the
\* expiry it had.
C8_CacheHitReplay ==
  [][ /\ TakesUp =>
           /\ (req'.tier = "cache") = LiveEntry(req'.normalized)
           /\ req'.tier = "cache" =>
                /\ req'.plan = EntryOf(intentCache, req'.normalized).value
                /\ req'.hitExpiresAt = EntryOf(intentCache, req'.normalized).expiresAt
      /\ (req.tier = "cache" /\ req.pc \in {"exec_call", "exec_reads", "exec_ok"}) =>
           req.nFast = 0 /\ req.nLLM = 0 /\ req.nSet = 0 /\ req.nDel = 0
      /\ (req.tier = "cache" /\ req.pc = "exec_ok" /\ HandlerStep) =>
           /\ req'.pc = "responded" /\ req'.status = 200 /\ req'.tier = "cache"
           /\ req'.body = renderResponseFromToolResults(req.results)
           /\ HasKey(intentCache', req.normalized)
           /\ EntryOf(intentCache', req.normalized) =
                [key |-> req.normalized, value |-> req.plan,
                 expiresAt |-> req.hitExpiresAt]
    ]_vars

\* C8 witness: a request answered from the cache with the confirmation of
\* the cached call_service plan, after the clock moved past the instant the
\* plan was stored at.
C8_Witness ==
  /\ req.pc = "responded" /\ req.tier = "cache" /\ req.status = 200
  /\ req.body = <<"Turned on", "Pool Pump">>
  /\ HasKey(intentCache, "turn on pool pump")
  /\ EntryOf(intentCache, "turn on pool pump").expiresAt < clock + IntentCacheTtlMs

\* C9: when the execution of a plan taken from the cache fails, the handler
\* removes the utterance's entry from the Plan Cache and goes on to the
\* fast-path matcher (and from there to the LLM when the matcher has no
\* rule for the utterance); it does not answer the request with the failure.
C9_CacheFailureFallsThrough ==
  [][ /\ ( /\ req.tier = "cache" /\ req.pc \in {"exec_call", "exec_reads"}
           /\ HandlerStep /\ AwaitedFailed ) =>
           req'.pc = "exec_err" /\ req'.tier = "cache"
      /\ (req.tier = "cache" /\ req.pc = "exec_err" /\ HandlerStep) =>
           /\ ~HasKey(intentCache', req.normalized)
           /\ req'.pc # "responded"
           /\ req'.nFast = 1
           /\ \/ req'.tier = "fast" /\ req'.pc \in {"fast_pool1", "fast_turn", "fast_suffix"}
              \/ req'.tier = "llm" /\ req'.pc = "llm_wait" /\ req'.nLLM = 1
    ]_vars

\* C9 witness: the cached plan failed, its entry is gone and the fast-path
\* matcher is resolving the utterance's target.
C9_Witness ==
  /\ req.nDel = 1 /\ req.nFast = 1 /\ req.pc = "fast_turn"
  /\ ~HasKey(intentCache, req.normalized)

\* C10: the apologetic response is given only by a request that reached the
\* LLM orchestrator; a failure in the cache-hit tier or the fast-path tier,
\* a hub failure while the matcher resolves an entity included, never
\* produces it.
C10_ApologyOnlyFromLLM ==
  (req.pc = "responded" /\ req.status = 500) => req.tier = "llm"

\* C11: the plan of the fast-path matcher is stored in the Plan Cache, under
\* the normalized utterance, by the step that follows its successful
\* execution and answers with the rendered confirmation, and by no other step
\* of the fast-path tier; when its execution fails the cache is left as it
\* is and the request goes to the LLM orchestrator.
C11_FastPlanCachedAfterSuccess ==
  [][ /\ (req.tier = "fast" /\ req.pc # "responded" /\ intentCache' # intentCache) =>
           req.pc = "exec_ok"
      /\ (req.tier = "fast" /\ req.pc = "exec_ok" /\ HandlerStep) =>
           /\ req'.pc = "responded" /\ req'.status = 200 /\ req'.tier = "fast"
           /\ req'.body = renderResponseFromToolResults(req.results)
           /\ HasKey(intentCache', req.normalized)
           /\ EntryOf(intentCache', req.normalized).value = req.plan
           /\ intentCache'[Len(intentCache')].key = req.normalized
      /\ ( /\ req.tier = "fast" /\ req.pc \in {"exec_call", "exec_reads"}
           /\ HandlerStep /\ AwaitedFailed ) =>
           req'.pc = "exec_err" /\ req'.tier = "fast"
      /\ (req.tier = "fast" /\ req.pc = "exec_err" /\ HandlerStep) =>
           /\ intentCache' = intentCache
           /\ req'.tier = "llm" /\ req'.pc = "llm_wait"
           /\ req'.nLLM = 1 /\ req'.nSet = 0
    ]_vars

\* C11 witness: the fast plan's call failed at the hub, nothing was stored
\* for the utterance and the model has been called.
C11_Witness ==
  /\ req.tier = "llm" /\ req.pc = "llm_wait" /\ req.nFast = 1 /\ req.nLLM = 1
  /\ req.normalized = "turn on pool pump" /\ req.nSet = 0
  /\ Known("switch.pool_pump")
  /\ ~HasKey(intentCache, req.normalized)

\* C12: in the tool-use loop of the LLM orchestrator a tool execution that
\* fails (an unknown tool name, an entity that is not found, a hub failure)
\* does not end the request: its error is pushed as a tool result flagged
\* is_error, the next invocation of the round is executed, and after the last
\* one the model is called again with one result for every invocation.
C12_ToolFailureReported ==
  [][ (req.pc = "llm_tool" /\ HandlerStep) =>
        LET failed == task[req.waits[1]].res = "err"
            blocks == req.toolUseBlocks
        IN /\ req'.tier = "llm" /\ req'.pc \in {"llm_tool", "llm_wait"}
           /\ Len(req'.results) = Len(req.results) + 1
           /\ req'.results[Len(req'.results)].is_error = failed
           /\ SubSeq(req'.results, 1, Len(req.results)) = req.results
           /\ req.idx < Len(blocks) =>
                /\ req'.pc = "llm_tool" /\ req'.idx = req.idx + 1
                /\ task'[req'.waits[1]] = executeTool(blocks[req.idx + 1])
           /\ req.idx = Len(blocks) =>
                /\ req'.pc = "llm_wait"
                /\ Len(req'.results) = Len(blocks)
    ]_vars

\* C12 witness: the model is being called again after a round of three
\* invocations of which the first, a state read, failed with not-found and
\* the last was executed and succeeded.
C12_Witness ==
  /\ req.pc = "llm_wait" /\ req.tier = "llm" /\ Len(req.results) = 3
  /\ req.results[1].is_error /\ req.results[1].content = <<"error", "unknown_tool">>
  /\ req.results[2].is_error /\ req.results[2].content = <<"error", "not_found">>
  /\ ~req.results[3].is_error

\* The cacheability rule as the Plan definition states it.
CacheableAction(call) ==
  /\ call.name # Undefined /\ call.hasInput
  /\ \/ call.name = "call_service" /\ call.entity_id # NoId /\ call.service # "toggle"
     \/ call.name = "get_entity_state" /\ call.entity_id # NoId

\* The LLM resolution ends with the model's final text.
LlmEnds == req.pc = "llm_wait" /\ req'.pc = "responded" /\ req'.status = 200

\* C13 as stated: at the end of an LLM resolution the Plan Cache is written
\* for the normalized utterance if and only if an invocation observed in the
\* loop is cacheable, and the stored plan is the cacheable invocations in the
\* order they were observed.
C13_StoredIffCacheable ==
  [][ LlmEnds =>
        LET cacheable == SelectSeq(req.toolUsesSeen, CacheableAction) IN
        IF cacheable # <<>>
        THEN /\ intentCache' # <<>>
             /\ intentCache'[Len(intentCache')].key = req.normalized
             /\ intentCache'[Len(intentCache')].value.toolCalls = cacheable
             /\ intentCache'[Len(intentCache')].expiresAt = clock + IntentCacheTtlMs
        ELSE intentCache' = intentCache
    ]_vars

\* C13 amended: the Plan Cache is written if and only if an invocation
\* observed in the loop is cacheable and the normalized utterance is not
\* empty; the stored plan is the cacheable invocations in the order they were
\* observed.
C13_StoredIffCacheableAndKeyed ==
  [][ LlmEnds =>
        LET cacheable == SelectSeq(req.toolUsesSeen, CacheableAction) IN
        IF cacheable # <<>> /\ req.normalized # ""
        THEN /\ intentCache' # <<>>
             /\ intentCache'[Len(intentCache')].key = req.normalized
             /\ intentCache'[Len(intentCache')].value.toolCalls = cacheable
             /\ intentCache'[Len(intentCache')].expiresAt = clock + IntentCacheTtlMs
             /\ Len(Without(intentCache', req.normalized)) = Len(intentCache') - 1
        ELSE intentCache' = intentCache
    ]_vars

\* C13 witness: an LLM resolution that observed a state read, a toggle and
\* a turn_off has ended and the cache holds the read and the turn_off, in
\* that order, for the utterance.
C13_Witness ==
  /\ req.pc = "responded" /\ req.tier = "llm" /\ req.status = 200
  /\ HasKey(intentCache, "pool temp on")
  /\ EntryOf(intentCache, "pool temp on").value.toolCalls =
       <<GetStateTool("switch.pool_pump"), GetStateTool("sensor.pool_temp")>>

----------------------------------------------------------------------------
(* Properties of the plan builder and the renderer *)

\* C14: the plan built of a list of tool uses holds a tool use exactly when
\* it is well-formed and is a call-service with a target entity id and an
\* operation other than toggle, or a read-state that names an entity id; a
\* toggle with a target, a call-service without a target entity, a discovery
\* and a malformed or unknown tool use are never in it.
C14_CacheabilityRule ==
  req.pc = "built" =>
    /\ \A i \in DOMAIN req.toolUsesSeen :
         (\E j \in DOMAIN req.plan.toolCalls :
            req.plan.toolCalls[j] = req.toolUsesSeen[i])
           <=> CacheableAction(req.toolUsesSeen[i])
    /\ \A i \in DOMAIN req.toolUsesSeen :
         LET c == req.toolUsesSeen[i] IN
         ( \/ c.name = "call_service" /\ c.service = "toggle"
           \/ c.name = "call_service" /\ c.entity_id = NoId
           \/ c.name \notin {"call_service", "get_entity_state"} )
           => ~isCacheableToolCall(c)

\* C14 witness: of a toggle with a target and a turn_on with the same target
\* the plan holds the turn_on alone.
C14_Witness ==
  /\ req.pc = "built"
  /\ req.toolUsesSeen = << CallServiceTool("switch", "toggle", "switch.pool_pump"),
                           CallServiceTool("switch", "turn_on", "switch.pool_pump") >>
  /\ req.plan.toolCalls = << CallServiceTool("switch", "turn_on", "switch.pool_pump") >>

----------------------------------------------------------------------------
(* Properties of the Plan Cache *)

\* A call of the IntentCache was made.
CacheCalled == cacheCall' # cacheCall \/ intentCache' # intentCache

\* The keys of the Map in its insertion order.
KeySeq(map) == [i \in DOMAIN map |-> map[i].key]

\* C15: the Map's order is the order of last access: a get that returns the
\* plan and every set leave their key at the most-recently-used end and the
\* other entries as they were; a set of a new key into a full cache removes
\* exactly one entry, the one whose last access is the oldest, and a set that
\* does not overflow removes none.
C15_LruOrderAndEviction ==
  [][ CacheCalled =>
        LET k == cacheCall'.key IN
        /\ KeySeq(intentCache') = cacheCall'.order
        /\ (cacheCall'.op = "get" /\ cacheCall'.value # NoPlan) =>
             intentCache' = Append(Without(intentCache, k), EntryOf(intentCache, k))
        /\ cacheCall'.op = "set" =>
             /\ intentCache'[Len(intentCache')].key = k
             /\ IF ~HasKey(intentCache, k) /\ Len(intentCache) = LruMax
                THEN /\ cacheCall'.evicted = {Head(cacheCall.order)}
                     /\ KeysOf(intentCache') =
                          (KeysOf(intentCache) \ {Head(cacheCall.order)}) \cup {k}
                     /\ Without(intentCache', k) =
                          Without(intentCache, Head(cacheCall.order))
                ELSE /\ cacheCall'.evicted = {}
                     /\ Without(intentCache', k) = Without(intentCache, k)
    ]_vars

\* C15 witness: the entry of k1 was created before that of k2 and accessed
\* again after it; the set of k3 into the full cache evicted k2 and kept k1.
C15_Witness ==
  /\ cacheCall.op = "set" /\ cacheCall.key = "k3" /\ cacheCall.evicted = {"k2"}
  /\ cacheCall.created = <<"k1", "k2", "k3">>
  /\ KeySeq(intentCache) = <<"k1", "k3">>
  /\ intentCache[1].expiresAt = StartClock + IntentCacheTtlMs

\* C16: a get of a key whose entry was stored with TTL 0, or whose expiry
\* time the clock has reached or passed, returns no plan, also when the get
\* is made at the instant of the set.
C16_ExpiredIsAbsent ==
  [][ ( /\ CacheCalled /\ cacheCall'.op = "get"
        /\ HasKey(intentCache, cacheCall'.key)
        /\ clock >= EntryOf(intentCache, cacheCall'.key).expiresAt ) =>
        cacheCall'.value = NoPlan
    ]_vars

\* C17: the IntentCache never holds more than maxEntries entries, and never
\* two entries of one key, whatever gets, sets and deletes were made.
C17_Bounded ==
  /\ Len(intentCache) <= LruMax
  /\ \A i, j \in DOMAIN intentCache :
       intentCache[i].key = intentCache[j].key => i = j

\* C17 witness: a set into the full cache has evicted an entry and the cache
\* is full again.
C17_Witness ==
  /\ cacheCall.op = "set" /\ cacheCall.evicted # {}
  /\ Len(intentCache) = LruMax

----------------------------------------------------------------------------
(* Properties of executePlan *)

\* The plan's actions that are not reads, and its reads, each in listed order.
NonReads == SelectSeq(req.plan.toolCalls, LAMBDA c : c.name # "get_entity_state")
Reads == SelectSeq(req.plan.toolCalls, LAMBDA c : c.name = "get_entity_state")

\* The calls of the hub client that are under way for the plan.
Active == {t \in Tasks : task[t].pc # "idle" /\ ~task[t].orphan}

\* Task t carries out the action call.
RunsCall(t, call) ==
  /\ task[t].op = executeTool(call).op
  /\ task[t].id = executeTool(call).id
  /\ task[t].arg = executeTool(call).arg

\* C18: while executePlan runs, its non-read actions are under way one at a
\* time in listed order, each after the results of all before it have been
\* collected; a read is under way only when the results of all non-read
\* actions have been collected; the list returned is the non-read actions in
\* listed order followed by the reads in listed order.
C18_ExecutionOrder ==
  /\ req.pc = "exec_call" =>
       /\ Active = {req.waits[1]}
       /\ req.idx \in 1..Len(NonReads)
       /\ RunsCall(req.waits[1], NonReads[req.idx])
       /\ [i \in DOMAIN req.results |-> req.results[i].input] =
            SubSeq(NonReads, 1, req.idx - 1)
  /\ (\E t \in Active : task[t].op = "getEntityState") =>
       /\ req.pc = "exec_reads"
       /\ [i \in DOMAIN req.results |-> req.results[i].input] = NonReads
  /\ req.pc = "exec_reads" =>
       /\ Len(req.waits) = Len(Reads)
       /\ Active = Range(req.waits)
       /\ \A i \in DOMAIN Reads : RunsCall(req.waits[i], Reads[i])
  /\ req.pc = "returned" =>
       /\ [i \in DOMAIN req.results |-> req.results[i].input] = NonReads \o Reads
       /\ \A i \in DOMAIN req.results : req.results[i].name = req.results[i].input.name
       /\ Active = {}

\* C18 witness: the plan that lists a read, a turn_on, a read and a turn_off
\* has returned the turn_on, the turn_off and the two reads.
C18_Witness ==
  /\ req.pc = "returned" /\ Len(req.plan.toolCalls) = 4
  /\ req.plan.toolCalls[1].name = "get_entity_state"
  /\ [i \in DOMAIN req.results |-> req.results[i].input] =
       << CallServiceTool("switch", "turn_on", "switch.pool_pump"),
          CallServiceTool("light", "turn_off", "light.lamp"),
          GetStateTool("sensor.pool_temp"),
          GetStateTool("switch.pool_pump") >>
  /\ req.results[3].result = "20" /\ req.results[4].result = "on"

\* C19: when an action of the plan fails executePlan fails with the error of
\* that action (of a failed read when reads are under way) and its caller
\* gets no list; after the failure of a non-read action no call of the hub
\* client is under way or started: the actions listed after it are not
\* submitted.
C19_FailureAborts ==
  [][ /\ (req.pc = "exec_call" /\ HandlerStep /\ AwaitedFailed) =>
           /\ req'.pc = "exec_err"
           /\ req'.err = [src |-> task[req.waits[1]].src, call |-> NonReads[req.idx]]
           /\ \A t \in Tasks : task'[t].pc = "idle"
      /\ (req.pc = "exec_reads" /\ HandlerStep) =>
           /\ AwaitedFailed <=> req'.pc = "exec_err"
           /\ AwaitedFailed =>
                \E i \in DOMAIN req.waits :
                  /\ task[req.waits[i]].res = "err"
                  /\ req'.err = [src |-> task[req.waits[i]].src, call |-> Reads[i]]
      /\ (req.pc = "exec_err" /\ HandlerStep) =>
           req'.pc = "threw" /\ req'.results = <<>> /\ req'.err = req.err
      /\ (req.pc \in {"exec_err", "threw"} /\ req.err.call.name # "get_entity_state") =>
           /\ \A t \in Tasks : task[t].pc = "idle"
           /\ req'.pc \in {"exec_err", "threw"} => \A t \in Tasks : task'[t].pc = "idle"
    ]_vars

\* C19 witness: the turn_on, first of the plan's non-read actions, was
\* refused by the hub; executePlan has failed with that error, and neither
\* the turn_off nor a read is under way.
C19_Witness ==
  /\ req.pc = "threw" /\ req.results = <<>>
  /\ req.err = [src |-> "http_error",
                call |-> CallServiceTool("switch", "turn_on", "switch.pool_pump")]
  /\ Len(req.plan.toolCalls) = 4
  /\ \A t \in Tasks : task[t].pc = "idle"

----------------------------------------------------------------------------
(* Properties of the renderer *)

\* C20: the confirmation is decided by the last result alone.  A turn_on or
\* turn_off whose target has a summary gives "Turned on" or "Turned off" with
\* the display name; every other call-service (another operation, no target,
\* no summary) gives "Done."; a state read gives the display name, "is", the
\* state, and the unit when the entity has one; the empty list and every
\* other shape give "Done.".
C20_RenderLast ==
  req.pc = "rendered" =>
    IF req.results = <<>> THEN req.body = <<"Done.">>
    ELSE LET last == req.results[Len(req.results)]
             id == last.input.entity_id
             confirms == /\ last.name = "call_service"
                         /\ last.input.service \in {"turn_on", "turn_off"}
                         /\ id # NoId
                         /\ id \in DOMAIN statesByEntityId
         IN /\ (confirms /\ last.input.service = "turn_on") =>
                 req.body = <<"Turned on", NameOf(id)>>
            /\ (confirms /\ last.input.service = "turn_off") =>
                 req.body = <<"Turned off", NameOf(id)>>
            /\ (last.name = "call_service" /\ ~confirms) => req.body = <<"Done.">>
            /\ (last.name = "get_entity_state" /\ UnitOf(id) # Undefined) =>
                 req.body = <<NameOf(id), "is", last.result, UnitOf(id)>>
            /\ (last.name = "get_entity_state" /\ UnitOf(id) = Undefined) =>
                 req.body = <<NameOf(id), "is", last.result>>
            /\ last.name \notin {"call_service", "get_entity_state"} =>
                 req.body = <<"Done.">>
            /\ req.body = renderResponseFromToolResults(<<last>>)

\* C20 witness: of a turn_on followed by the read of the pool sensor the
\* confirmation is the sensor's reading with its unit.
C20_Witness ==
  /\ req.pc = "rendered" /\ Len(req.results) = 2
  /\ req.results[1].name = "call_service"
  /\ req.results[1].input.service = "turn_on"
  /\ "switch.pool_pump" \in DOMAIN statesByEntityId
  /\ req.body = <<"Pool Temperature", "is", "20", "C">>

----------------------------------------------------------------------------
(* Properties of the normalizer *)

\* C21: the utterance normalizer is idempotent: normalizing the normalized
\* text gives the normalized text again, for every text, a text with a filler
\* word between "switch" and "on" or "off" included.
C21_Idempotent ==
  req.pc = "norm2" => req.body = req.normalized

----------------------------------------------------------------------------
(* Properties of resolveEntityId and findEntities *)

\* The score as it is stated: 3 for each query token in the token set of
\* the display name, 1 for each query token that is a substring of the
\* entity id, 2 when the case-folded phrase is a substring of the name.
StatedScore(name, id, search) ==
  LET qt == Tokenize(Chars(search))
      nt == Range(Tokenize(Chars(name)))
  IN 3 * Cardinality({i \in DOMAIN qt : qt[i] \in nt})
     + Cardinality({i \in DOMAIN qt : Includes(Chars(id), qt[i])})
     + (IF Includes(ToLowerCase(Chars(name)), ToLowerCase(Chars(search)))
        THEN 2 ELSE 0)

StatedScores ==
  [k \in HubEntityIds \X Searches |-> StatedScore(NameOf(k[1]), k[1], k[2])]

\* Task t has ended a call of op that scored entities: it was given
\* categories and a search phrase.
Scored(t, op) ==
  /\ task[t].pc = "done" /\ task[t].op = op /\ task[t].res = "ok"
  /\ task[t].arg.domains # <<>> /\ task[t].arg.search # ""

Unavailable(e) == e.state \in {"unknown", "unavailable"}

\* C22: the score of an entity for a search phrase is 3 for each query token
\* in the entity's display-name token set, plus 1 for each query token that
\* is a substring of the entity id, plus 2 if the whole case-folded phrase is
\* a substring of the display name; "Pool Pump" (switch.pool_pump) scores at
\* least 8 for "pool pump", and an entity that scores 0 is never a candidate:
\* resolveEntityId does not return it and findEntities does not list it.
C22_ScoreAsStated ==
  \A t \in Tasks :
    (Scored(t, "resolveEntityId") \/ Scored(t, "findEntities")) =>
      LET search == task[t].arg.search
          all == Enumerate(task[t].arg.domains)
      IN /\ \A i \in DOMAIN all :
              /\ FindScore(all[i], search) = StatedScores[<<all[i].entity_id, search>>]
              /\ StatedScores[<<all[i].entity_id, search>>] = 0 =>
                   IF task[t].op = "resolveEntityId"
                   THEN task[t].val # all[i].entity_id
                   ELSE \A k \in DOMAIN task[t].val :
                          task[t].val[k].entity_id # all[i].entity_id
         /\ NameScores[<<"switch.pool_pump", "pool pump">>] >= 8

\* C22 witness: "pool pump" resolved to the pump, scored 10, among the
\* lights and switches of a directory that holds the lamp, scored 0.
C22_Witness ==
  /\ Scored(1, "resolveEntityId")
  /\ task[1].arg.search = "pool pump" /\ task[1].arg.domains = <<"light", "switch">>
  /\ task[1].val = "switch.pool_pump"
  /\ NameScores[<<"switch.pool_pump", "pool pump">>] = 10
  /\ \E i \in DOMAIN EntitiesOf("light") :
       /\ EntitiesOf("light")[i].entity_id = "light.lamp"
       /\ NameScores[<<"light.lamp", "pool pump">>] = 0

C24_ResolveBestFirst ==
  \A t \in Tasks :
    (task[t].pc = "done" /\ task[t].op = "resolveEntityId" /\ task[t].res = "ok") =>
      LET search == task[t].arg.search
          all == Enumerate(task[t].arg.domains)
          score(i) == ResolveScore(all[i], search)
          cands == {i \in DOMAIN all : score(i) > 0}
          top == {i \in cands : \A j \in cands : score(j) <= score(i)}
      IN IF task[t].arg.domains = <<>> \/ search = "" THEN task[t].val = NoId
         ELSE IF cands = {} THEN task[t].val = NoId
         ELSE LET first == CHOOSE i \in top : \A j \in top : i <= j IN
              IF score(first) < task[t].arg.minScore THEN task[t].val = NoId
              ELSE task[t].val = all[first].entity_id

\* C24 witness: two switches both score 10 for "pool pump"; the one the hub
\* reported first is returned.
C24_Witness ==
  /\ Scored(1, "resolveEntityId")
  /\ task[1].arg.search = "pool pump" /\ task[1].arg.domains = <<"light", "switch">>
  /\ Len(EntitiesOf("switch")) = 2
  /\ EntitiesOf("switch")[1].entity_id = "switch.pool_pump_2"
  /\ EntitiesOf("switch")[2].entity_id = "switch.pool_pump"
  /\ \A i \in 1..2 : ResolveScore(EntitiesOf("switch")[i], "pool pump") = 10
  /\ task[1].val = "switch.pool_pump_2"

\* C27: findEntities with a search term returns exactly the entities of the
\* category whose score is strictly positive under the scoring that
\* resolveEntityId applies to them, its treatment of unknown and unavailable
\* entities included, in non-increasing order of that score, 50 at most;
\* without a search term the first 50 at most of the category in hub order.
C27_FindScoresAsResolve ==
  \A t \in Tasks :
    (task[t].pc = "done" /\ task[t].op = "findEntities" /\ task[t].res = "ok") =>
      LET search == task[t].arg.search
          all == EntitiesOf(task[t].arg.domains[1])
          found == task[t].val
      IN IF search = ""
         THEN found = SubSeq(all, 1, IF Len(all) < 50 THEN Len(all) ELSE 50)
         ELSE /\ Len(found) <= 50
              /\ \A i \in DOMAIN all :
                   (\E k \in DOMAIN found : found[k] = all[i])
                     <=> ResolveScore(all[i], search) > 0
              /\ \A k \in DOMAIN found : \A l \in DOMAIN found :
                   k < l => ResolveScore(found[k], search) >= ResolveScore(found[l], search)

----------------------------------------------------------------------------
(* Properties of tryFastPathPlan *)

\* The call-service plan of one action for the word and the entity given.
OneService(word, entityId) ==
  << CallServiceTool(DomainOf(entityId),
                     IF word = "on" THEN "turn_on" ELSE "turn_off", entityId) >>

\* C25: the fast-path rules are tried in the order sensor-query,
\* prefix-imperative, suffix-imperative and the first rule whose pattern
\* matches the normalized utterance decides the outcome: the plan returned
\* is that rule's plan, or none when that rule's resolution fails; no later
\* rule produces one.
C25_FirstMatchDecides ==
  req.pc = "fp_returned" =>
    LET f == FastRulesOf[req.normalized]
        calls == req.plan.toolCalls
    IN IF f.pool
       THEN req.plan = NoPlan
            \/ (Len(calls) = 1 /\ calls[1].name = "get_entity_state")
       ELSE IF f.turn.applies
       THEN req.plan = NoPlan
            \/ \E id \in HubEntityIds : calls = OneService(f.turn.desired, id)
       ELSE IF f.suffix.applies
       THEN req.plan = NoPlan
            \/ \E id \in HubEntityIds : calls = OneService(f.suffix.desired, id)
       ELSE req.plan = NoPlan

\* The target of the prefix imperative resolves: the id it resolves to within
\* the light and switch categories, with minScore 3 for a target that
\* contains "pool" and 4 for any other.
TurnTargetId ==
  LET f == FastRulesOf[req.normalized].turn IN
  ResolveBest(<<"light", "switch">>, f.search,
              IF Includes(Chars(f.search), Chars("pool")) THEN 3 ELSE 4)

\* C26 as stated: for a normalized utterance "turn on|off <target>" whose
\* target resolves within the light/switch categories, the fast path yields a
\* plan of exactly one call-service action: category the prefix of the
\* resolved id, operation turn_on for "on" and turn_off for "off", target the
\* resolved id.
C26_PrefixImperativePlan ==
  (req.pc = "fp_returned" /\ FastRulesOf[req.normalized].turn.applies) =>
    (TurnTargetId # NoId =>
       req.plan.toolCalls =
         OneService(FastRulesOf[req.normalized].turn.desired, TurnTargetId))

\* The sensor-query rule yields a plan: its pattern matches and one of its
\* two resolutions finds a sensor.
SensorRuleYieldsPlan ==
  /\ FastRulesOf[req.normalized].pool
  /\ \/ ResolveBest(<<"sensor">>, "pool temperature", ScorePool) # NoId
     \/ ResolveBest(<<"sensor">>, "pool temp", ScorePool) # NoId

\* C26, amended: the same, for an utterance for which the sensor-query rule,
\* tried first, yields no plan (its pattern does not match, or neither of
\* its resolutions finds a sensor).
C26_PrefixImperativePlanUnlessSensor ==
  (req.pc = "fp_returned" /\ FastRulesOf[req.normalized].turn.applies) =>
    ((TurnTargetId # NoId /\ ~SensorRuleYieldsPlan) =>
       req.plan.toolCalls =
         OneService(FastRulesOf[req.normalized].turn.desired, TurnTargetId))

\* C26 witness: "turn on pool pump" with switch.pool_pump in state "off"
\* yields the one action switch/turn_on on switch.pool_pump.
C26_Witness ==
  /\ req.pc = "fp_returned" /\ req.normalized = "turn on pool pump"
  /\ Known("switch.pool_pump") /\ statesByEntityId["switch.pool_pump"] = "off"
  /\ req.plan = [version |-> 1,
                 toolCalls |-> <<CallServiceTool("switch", "turn_on", "switch.pool_pump")>>]


----------------------------------------------------------------------------
(* Properties of warmup *)

\* C28: warmup calls refreshStates({force: true}) at most 3 times and stops
\* at the first call that succeeds; after the failed attempt number n it
\* sleeps 250 ms x n when n < 3 and does not sleep after the third; it
\* always completes, and never with an error, also when all three attempts
\* fail; with warmupOnStart off it makes no attempt.
C28_WarmupStep ==
  LET w == task[WarmupTask]
      v == task'[WarmupTask]
  IN /\ v.nForced <= WarmupAttempts
     /\ v.op = "warmup" /\ ~v.force => v.nForced = 0
     /\ v.op = "warmup" /\ v.pc = "done" => v.res = "ok"
     /\ v.nForced # w.nForced =>
          /\ w.pc \in {"wu_start", "wu_sleep"}
          /\ v.nForced = w.nForced + 1
     /\ w.pc \in {"rs_await", "rs_join"} /\ Moves(WarmupTask) =>
          v.pc = IF promise[w.wait] = "fulfilled" THEN "wu_ok" ELSE "wu_catch"
     /\ w.pc = "wu_ok" /\ Moves(WarmupTask) => v.pc = "done"
     /\ w.pc = "wu_catch" /\ Moves(WarmupTask) =>
          IF w.nForced < WarmupAttempts
          THEN v.pc = "wu_sleep" /\ v.val = WarmupSleepMs * w.nForced
          ELSE v.pc = "done"
     /\ w.pc = "wu_sleep" /\ Moves(WarmupTask) => v.pc \in {"rs_await", "rs_join"}

C28_Warmup ==
  /\ [][C28_WarmupStep]_vars
  /\ (task[WarmupTask].op = "warmup") ~> (task[WarmupTask].pc = "done")

\* Three attempts have failed and warmup has returned; the directory is as
\* it was at the start.
C28_Witness ==
  /\ task[WarmupTask].op = "warmup"
  /\ task[WarmupTask].pc = "done"
  /\ task[WarmupTask].res = "ok"
  /\ task[WarmupTask].nForced = WarmupAttempts
  /\ lastStatesRefreshAt = 0


----------------------------------------------------------------------------
(* Properties of the replay *)

\* C29: a request served from the plan that a prior identical request
\* cached is answered with the same spoken confirmation as the request
\* before it, which either stored the plan, in the fast path or in the LLM
\* orchestrator, or was itself served from it; the hub is unchanged.
C29_SameConfirmation ==
  [][ ( /\ req.tier = "cache" /\ req.pc = "exec_ok"
        /\ req'.pc = "responded"
        /\ req.prior.status = 200 ) =>
        req'.body = req.prior.body ]_vars


----------------------------------------------------------------------------
(* Properties of requests in flight together *)

EntriesOf(map, key) == {i \in DOMAIN map : map[i].key = key}

\* C30: when requests with the same normalized utterance run concurrently
\* and each writes the Plan Cache, then after all of them have completed the
\* cache holds one entry for the key, with the plan of the last write; and
\* at no point of any interleaving does the cache hold two entries for one
\* key or more entries than its bound.
C30_LastWriterWins ==
  /\ \A key \in {intentCache[i].key : i \in DOMAIN intentCache} :
       Cardinality(EntriesOf(intentCache, key)) = 1
  /\ Len(intentCache) <= IntentCacheMax
  /\ (\A i \in Requests : req[i].pc = "responded" /\ req[i].nSet = 1) =>
       /\ Cardinality(EntriesOf(intentCache, RaceKey)) = 1
       /\ EntryOf(intentCache, RaceKey).value = cacheCall.value

\* Two requests have written different plans, the first one's is gone.
C30_Witness ==
  /\ \A i \in Requests : req[i].pc = "responded" /\ req[i].nSet = 1
  /\ \E i, j \in Requests : req[i].plan # req[j].plan
  /\ \E i \in Requests : req[i].plan = cacheCall.value
  /\ EntryOf(intentCache, RaceKey).value = cacheCall.value


----------------------------------------------------------------------------
(* Properties of the LLM orchestrator *)

\* C31: the tool-use loop has a hard ceiling of 8 rounds: when the model has
\* answered with tool requests 8 times the orchestrator does not call the
\* model again.
C31_RoundCeiling == ~(req.pc = "llm_wait" /\ req.rounds >= 8)


\* The handler's record changes in the step.
LoopStep == req' # req

\* C32: in each round the tool invocations the model requested are executed
\* one at a time in the requested order, each once, and for each of them one
\* tool_result with its id is appended, flagged as an error exactly when the
\* execution failed; the assistant's request and then the results are added
\* to the conversation before the model is called again; the loop ends at
\* the first response that does not signal tool use, with no further tool
\* executed, and the reply is that response's text or "Done." when it has
\* none.
C32_LoopProtocol ==
  [][ /\ (LoopStep /\ req'.pc = "llm_tool") =>
           /\ Len(req'.waits) = 1
           /\ req'.idx = (IF req.pc = "llm_tool" THEN req.idx ELSE 0) + 1
           /\ req'.idx <= Len(req'.toolUseBlocks)
           /\ task'[req'.waits[1]] = executeTool(req'.toolUseBlocks[req'.idx])
           /\ \A t \in Tasks \ {req'.waits[1]} : task'[t].pc = "idle"
      /\ (LoopStep /\ req.pc = "llm_wait" /\ req'.pc = "llm_tool") =>
           req'.results = <<>> /\ req'.rounds = req.rounds + 1
      /\ (LoopStep /\ req.pc = "llm_tool") =>
           /\ req'.results =
                Append(req.results,
                       [type |-> "tool_result", tool_use_id |-> req.idx,
                        content |-> IF task[req.waits[1]].res = "err"
                                    THEN <<"error", task[req.waits[1]].src>>
                                    ELSE task[req.waits[1]].val,
                        is_error |-> task[req.waits[1]].res = "err"])
           /\ req'.pc \in {"llm_tool", "llm_wait"}
           /\ req'.pc = "llm_wait" <=> req.idx = Len(req.toolUseBlocks)
      /\ (LoopStep /\ req.pc \in {"llm_tool", "llm_wait"} /\ req'.pc = "llm_wait") =>
           LET blocks == IF req.pc = "llm_tool" THEN req.toolUseBlocks ELSE <<>> IN
           /\ Len(req'.results) = Len(blocks)
           /\ \A i \in DOMAIN blocks : req'.results[i].tool_use_id = i
           /\ req'.messages = req.messages \o
                                <<[role |-> "assistant", content |-> blocks],
                                  [role |-> "user", content |-> req'.results]>>
      /\ (LoopStep /\ req.pc = "llm_wait" /\ req'.pc = "responded"
             /\ req'.status = 200) =>
           /\ task' = task
           /\ req'.body \in {<<ModelText>>, <<"Done.">>}
    ]_vars

\* Two rounds are over: the conversation holds the request of each and its
\* results, one of them an error.
C32_Witness ==
  /\ req.pc = "llm_wait" /\ req.rounds = 2
  /\ Len(req.messages) = 5
  /\ Len(req.messages[3].content) = 2
  /\ req.messages[3].content[1].is_error
  /\ ~req.messages[3].content[2].is_error
  /\ Len(req.messages[5].content) = 2


----------------------------------------------------------------------------
(* Properties of the renderer's lookups *)

\* C33: rendering a response, with the getEntitySummary lookups it makes,
\* starts no hub request and no refresh: the snapshot, the time of the last
\* refresh, the in-flight guard and the Plan Cache are as they were; and the
\* summary of an id the snapshot does not hold is null, also when the
\* snapshot is stale, so that a service call on such an id is confirmed
\* with "Done.".
C33_RenderFrame ==
  [][ (req.pc = "render" /\ req'.pc = "rendered") =>
        /\ UNCHANGED <<dirVars, refreshInFlight, promise, task, intentCache>>
        /\ \A i \in DOMAIN req.results :
             LET id == req.results[i].input.entity_id IN
             id \notin DOMAIN statesByEntityId =>
               /\ getEntitySummary(id).name = Undefined
               /\ getEntitySummary(id).domain = Undefined
               /\ (i = Len(req.results) /\ req.results[i].name = "call_service") =>
                    req'.body = <<"Done.">>
    ]_vars

\* A turn_on of the pump is rendered on the empty snapshot, which is stale.
C33_Witness ==
  /\ req.pc = "rendered" /\ req.results # <<>>
  /\ req.results[Len(req.results)].name = "call_service"
  /\ req.results[Len(req.results)].input.service = "turn_on"
  /\ req.results[Len(req.results)].input.entity_id = "switch.pool_pump"
  /\ statesByEntityId = <<>> /\ Stale(clock)
  /\ refreshInFlight = Null /\ lastStatesRefreshAt = 0
  /\ req.body = <<"Done.">>


----------------------------------------------------------------------------
(* Properties of the Plan Cache under the request pipeline *)

\* C34: whatever requests have been served, every plan the cache holds has
\* at least one action, and each of its actions is a call_service with a
\* target entity and an operation other than toggle, or a get_entity_state
\* that names an entity; a discovery is never stored.
C34_StoredPlansCacheable ==
  \A i \in DOMAIN intentCache :
    LET calls == intentCache[i].value.toolCalls IN
    /\ Len(calls) >= 1
    /\ \A j \in DOMAIN calls :
         /\ calls[j].name \in {"call_service", "get_entity_state"}
         /\ calls[j].hasInput
         /\ calls[j].entity_id # NoId
         /\ calls[j].name = "call_service" => calls[j].service # "toggle"

\* The model asked for a discovery and a toggle, then for two reads and a
\* tool that is not known: the two reads are what is stored.
C34_Witness ==
  /\ req.pc = "responded" /\ req.tier = "llm" /\ req.status = 200
  /\ Len(intentCache) = 1
  /\ intentCache[1].value.toolCalls =
       <<GetStateTool("switch.pool_pump"), GetStateTool("sensor.pool_temp")>>


\* The invocations of the conversation that were executed without an error:
\* the tool_use blocks of the assistant's messages whose tool_result, in the
\* message that follows, is not flagged.
Succeeded(messages) ==
  UNION { {messages[m].content[i] :
             i \in {k \in DOMAIN messages[m].content :
                      ~messages[m + 1].content[k].is_error}} :
          m \in {n \in DOMAIN messages : messages[n].role = "assistant"} }

\* C35: every action of a plan the LLM orchestrator stores is a tool
\* invocation that was executed successfully while the request was resolved;
\* an invocation that failed is not part of the stored plan.
C35_StoredCallsSucceeded ==
  [][ ( /\ req.pc = "llm_wait" /\ req'.pc = "responded"
        /\ intentCache' # intentCache ) =>
        \A j \in DOMAIN intentCache'[Len(intentCache')].value.toolCalls :
          intentCache'[Len(intentCache')].value.toolCalls[j] \in Succeeded(req.messages)
    ]_vars


\* C36: within the handling of one request, a call_service the hub has
\* accepted for one tier is not submitted again by a later tier.
C36_NoResubmission ==
  "posted" \in DOMAIN req =>
    \A i, j \in DOMAIN req.posted :
      req.posted[i].call = req.posted[j].call => req.posted[i].tier = req.posted[j].tier

\* The entries whose expiry time the clock has passed, as get tests it.
Expired(map, now) == {map[i] : i \in {n \in DOMAIN map : now > map[n].expiresAt}}

\* C37: a get of a key that is not stored changes nothing; a get of an
\* entry whose expiry time has passed removes that entry and nothing else; a
\* get of any other entry changes its place in the Map alone: the entries,
\* their values and their expiry times stay, and so does the order of the
\* other entries.  The key of an expired entry leaves the Map only in a get
\* or a delete of that key or in a set whose eviction removes it (a set of
\* the key itself replaces the entry).
C37_GetFrame ==
  [][ LET k == cacheCall'.key
          stored == {intentCache[i] : i \in DOMAIN intentCache}
          left == {intentCache'[i] : i \in DOMAIN intentCache'}
      IN /\ (CacheCalled /\ cacheCall'.op = "get") =>
              /\ Without(intentCache', k) = Without(intentCache, k)
              /\ IF ~HasKey(intentCache, k) THEN intentCache' = intentCache
                 ELSE IF EntryOf(intentCache, k) \in Expired(intentCache, clock)
                 THEN /\ left = stored \ {EntryOf(intentCache, k)}
                      /\ cacheCall'.value = NoPlan
                 ELSE /\ left = stored
                      /\ cacheCall'.value = EntryOf(intentCache, k).value
         /\ \A e \in Expired(intentCache, clock) :
              ~HasKey(intentCache', e.key) =>
                \/ cacheCall'.op \in {"get", "delete"} /\ k = e.key
                \/ cacheCall'.op = "set" /\ e.key \in cacheCall'.evicted
    ]_vars

\* C37 witness: k2 was stored before k1; the get of k2 returned the plan
\* and moved its entry behind that of k1, which has expired and is still
\* stored.
C37_Witness ==
  /\ cacheCall.op = "get" /\ cacheCall.key = "k2" /\ cacheCall.value # NoPlan
  /\ cacheCall.created = <<"k2", "k1">>
  /\ KeySeq(intentCache) = <<"k1", "k2">>
  /\ intentCache[1] \in Expired(intentCache, clock)
  /\ intentCache[2].expiresAt = clock

----------------------------------------------------------------------------
(* Properties of the handler for a text that normalizes to nothing *)

\* The request r has a text, and normalizeUtterance made "" of it.
EmptyKey(r) == r.text # "" /\ r.normalized = ""

\* C38: a request whose text normalizes to the empty string is with the LLM
\* orchestrator from the step that receives it: no cached plan and no fast
\* plan is executed for it, and no step taken while it is handled changes
\* the Plan Cache; the cache never holds an entry under the empty key.
C38_EmptyKeyToLlm ==
  /\ [] ~HasKey(intentCache, "")
  /\ [][ /\ EmptyKey(req') =>
               /\ req'.tier = "llm" /\ req'.pc \in {"llm_wait", "llm_tool"}
               /\ req'.nLLM = 1 /\ req'.plan = NoPlan /\ req'.hitExpiresAt = Null
         /\ (EmptyKey(req) \/ EmptyKey(req')) => intentCache' = intentCache
         /\ (EmptyKey(req) /\ ~EmptyKey(req')) =>
               req'.pc = "responded" /\ req'.tier = "llm"
     ]_vars

\* C38 witness: the model is about to answer "The" after a round of tool
\* uses of which a plan can be built, while the cache holds a plan.
C38_Witness ==
  /\ req.text = "The" /\ req.normalized = ""
  /\ req.pc = "llm_wait" /\ req.rounds = 1
  /\ buildPlanFromToolUses(req.toolUsesSeen) # NoPlan
  /\ intentCache # <<>>

----------------------------------------------------------------------------
(* Properties of a read that follows a service call *)

\* C39: the steps of callService from its POST on leave the snapshot and
\* its freshness timestamp as they are.  A getEntityState of the entity a
\* service call was accepted for, made while the snapshot is within its TTL
\* and is the one the POST left with, returns the state that snapshot
\* records for the entity, without a refresh and without a request to the
\* hub.
C39_ReadAfterCall ==
  [][ \A t \in Clients :
        /\ (task[t].pc = "cs_post" \/ task'[t].pc = "cs_post") /\ task'[t] # task[t] =>
             UNCHANGED dirVars
        /\ ( /\ task[t].op = "getEntityState" /\ "snap" \in DOMAIN task[t]
             /\ task[t].pc = "gs_check1" /\ task[t].how = "noop"
             /\ task'[t] # task[t]
             /\ statesByEntityId = task[t].snap ) =>
             /\ task'[t].pc = "done" /\ task'[t].res = "ok"
             /\ task'[t].src = "cache"
             /\ task'[t].val = task[t].snap[task[t].id]
             /\ task'[t].nForced = 0 /\ task'[t].nPoint = 0
             /\ UNCHANGED <<dirVars, refreshInFlight, promise>>
    ]_vars

\* C39 witness: the read that followed the service call has returned the
\* state of the snapshot the POST left with, at a later time by the clock.
C39_Witness ==
  \E t \in Clients :
    /\ task[t].op = "getEntityState" /\ "snap" \in DOMAIN task[t]
    /\ task[t].pc = "done" /\ task[t].res = "ok" /\ task[t].src = "cache"
    /\ statesByEntityId = task[t].snap
    /\ task[t].val = task[t].snap[task[t].id]
    /\ clock > lastStatesRefreshAt

========================================================================
